---- MODULE Spec2Model ----
(***************************************************************************)
(* Verification model of dockyard: the Docker daemon health check and its  *)
(* recovery flow (pkg/docker/health.go), the compose operations of the     *)
(* ComposeManager with their error handling, and the registry error        *)
(* classifier (pkg/docker/registry.go).                                    *)
(***************************************************************************)
EXTENDS Integers, Sequences, FiniteSets, TLC

VARIABLES
    goos,           \* runtime.GOOS
    dockerOnPath,   \* exec.LookPath("docker") succeeds
    orbctlOnPath,   \* exec.LookPath("orbctl") succeeds
    colimaOnPath,   \* exec.LookPath("colima") succeeds
    pc,             \* position of the single thread of control
    entry,          \* how the operation was invoked
    command,        \* the compose command of the operation
    dockerArgs,     \* the arguments given to executeCommandWithErrorHandling
    newClientCalls, \* calls of NewDockerHealthChecker in this health check
    open,           \* daemon client connections currently open
    pings,          \* calls of CheckDockerDaemon (client.Ping)
    firstPing,      \* outcome of the ping of checkDockerStatusBrief
    pingOk,         \* some ping of this health check succeeded
    prompts,        \* recovery-choice prompts shown (handleMacOSDockerError)
    launches,       \* runtime launch attempts (open -a ..., colima start)
    launched,       \* the launches made: <<runtime, launch succeeded>>
    wrCalls,        \* entries into waitAndRetryDocker
    i,              \* loop variable of waitAndRetryDocker
    wrStarted,      \* iterations of the retry loop begun
    wrPings,        \* pings issued by the retry loop
    wrOkAt,         \* iteration whose ping succeeded, 0 if none
    sleeps,         \* calls of time.Sleep(RetryInterval)
    slept,          \* seconds spent in time.Sleep by the retry loop
    startupCalls,   \* entries into showStartupOptions
    shown,          \* instruction blocks printed so far
    hcExit,         \* the terminal state in which the health check ended
    hcErr,          \* value returned by CheckDockerStatus
    composeRuns,    \* runs of `docker compose ...` by this operation
    cmdErr,         \* error of cmd.Run() in executeCommandWithErrorHandling
    errorOutput,    \* errorStr: the output captured for error analysis
    regError,       \* result of DetectRegistryError(errorStr)
    opErr,          \* value the operation returns to its caller
    input,          \* classifier: the error text given to DetectRegistryError
    out1,           \* classifier: result of the first call on input
    out2,           \* classifier: result of the second call on input
    calls,          \* classifier: calls of DetectRegistryError made on input
    cliCmd,         \* command line: the subcommand given, "none" before
    cliArgs,        \* command line: the arguments of the subcommand
    operated,       \* command line: projects given to StartProject/StopProject
    cliOut,         \* command line: what the command printed at its end
    projectsMap,    \* docker.Projects: the set of <<name, path>> entries
    file,           \* projects.json: [exists, valid, data]
    fileAtStart,    \* projects.json as the process found it
    caller,         \* who called AddProject
    preAnswer,      \* answer to the prompt of CheckAndLoadProjectsFile
    preErr,         \* what CheckAndLoadProjectsFile returned
    loadCalls,      \* calls of LoadProjectsFromFile by the pre-run step
    addCalls,       \* calls of AddProject
    opDone,         \* the last of AddProject / RemoveProject that returned
    opResult,       \* what it returned
    picked,         \* the <<name, path>> it was given by the user
    confirm,        \* the answer to its final confirmation, "none" if not asked
    writes,         \* calls of os.WriteFile on projects.json
    map0,           \* projectsMap when it was called
    file0,          \* projects.json when it was called
    writes0,        \* writes when it was called
    exitCode,       \* exit status of the process, "none" while it runs
    runner,         \* the command whose loop over the projects runs
    loop,           \* the loop it is in: "start", "retry" or "fix"
    selected,       \* selectedProjects, the list given to the command
    successCount,   \* successCount of the start loop and of the retry loop
    failedProjects, \* failedProjects / stillFailed of the two loops
    stopped,        \* the loop was left by its break
    results,        \* per loop, what happened to each project attempted
    statuses        \* the calls of GetProjectStatus and what they returned

envVars == <<goos, dockerOnPath, orbctlOnPath, colimaOnPath>>
opVars == <<entry, command, dockerArgs>>
wrVars == <<wrCalls, i, wrStarted, wrPings, wrOkAt, sleeps, slept>>
hcVars == <<newClientCalls, open, pings, firstPing, pingOk, prompts, launches, launched,
            startupCalls, shown, hcExit, hcErr>>
cmVars == <<composeRuns, cmdErr, errorOutput, regError, opErr>>
clVars == <<input, out1, out2, calls>>
cliVars == <<cliCmd, cliArgs, operated, cliOut>>
pjVars == <<projectsMap, file, fileAtStart, caller, preAnswer, preErr,
            loadCalls, addCalls, opDone, opResult, picked, confirm, writes,
            map0, file0, writes0, exitCode>>
runVars == <<runner, loop, selected, successCount, failedProjects, stopped,
             results, statuses>>
appVars == <<cliVars, pjVars, runVars>>
flowVars == <<envVars, opVars, wrVars, hcVars, cmVars>>
vars == <<envVars, pc, opVars, wrVars, hcVars, cmVars, clVars, appVars>>

----------------------------------------------------------------------------
(* Constants of pkg/docker/health.go *)

MaxRetries == 12

\* RetryInterval, in seconds
RetryInterval == 5

PlatformDarwin == "darwin"
PlatformWindows == "windows"
PlatformLinux == "linux"

\* config.Platforms, read from platforms.yaml: one profile for each of
\* darwin, windows and linux; a profile is given by the names of its blocks
\* of lines.
Platforms ==
    [ darwin |-> [InstallOptions |-> "install_darwin",
                  Troubleshooting |-> "tips_darwin",
                  Manual |-> "manual_darwin", Auto |-> "auto_darwin"],
      windows |-> [InstallOptions |-> "install_windows",
                   Troubleshooting |-> "tips_windows",
                   Manual |-> "manual_windows", Auto |-> "auto_windows"],
      linux |-> [InstallOptions |-> "install_linux",
                 Troubleshooting |-> "tips_linux",
                 Manual |-> "manual_linux", Auto |-> "auto_linux"] ]

\* Variant: no fallback; a key that is not in the map yields the zero value
\* of PlatformConfiguration, whose lists are empty.
getPlatformConfiguration_NoFallback(platform) ==
    IF platform \in DOMAIN Platforms
      THEN Platforms[platform]
      ELSE [InstallOptions |-> "none", Troubleshooting |-> "none",
            Manual |-> "none", Auto |-> "none"]

\* getPlatformConfiguration
getPlatformConfiguration(platform) ==
    IF platform \in DOMAIN Platforms
      THEN Platforms[platform]
      ELSE Platforms["linux"]

\* getStartupInstructions
getStartupInstructions(platform, instructionType) ==
    CASE instructionType = "manual" ->
           getPlatformConfiguration(platform).Manual
      [] instructionType = "auto" -> getPlatformConfiguration(platform).Auto
      [] OTHER -> getPlatformConfiguration(platform).Manual

\* Values of runtime.GOOS considered; "freebsd" stands for every OS outside
\* the three named platforms.
GOOSValues == {PlatformDarwin, PlatformWindows, PlatformLinux, "freebsd"}

\* Outcomes of survey.AskOne on the Select of handleMacOSDockerError: the
\* prompt fails (interrupt, no terminal), or the user picks
\* config.UIOptions.RuntimeOptions[0], [1], [2], or a further option, which
\* the switch sends to `default`.
RuntimeAnswers == {"err", "opt0", "opt1", "opt2", "other"}

\* Outcomes of the Select of showStartupOptions: the prompt fails, or the
\* user picks config.UIOptions.StartupOptions[0], [1], or a further option.
StartupAnswers == {"err", "opt0", "opt1", "other"}

----------------------------------------------------------------------------
(* CheckDockerStatus and the recovery flow *)

\* Variant: the availability check is skipped.
IsDockerAvailable_Skipped == TRUE

\* IsDockerAvailable: exec.LookPath(CommandDocker) has no error.
IsDockerAvailable == dockerOnPath

\* Variant: the loop ends one iteration early.
LoopCond_Short(n) == n < MaxRetries - 1

\* waitAndRetryDocker: the loop condition `i < MaxRetries`.
LoopCond(n) == n < MaxRetries

\* Variant: checkDockerStatusBrief returns without closing its client.
Return_NoClose(exit, err) ==
    /\ hcExit' = exit
    /\ hcErr' = err
    /\ open' = open
    /\ pc' = "hcReturned"

\* Returning from checkDockerStatusBrief after its client was created runs
\* the deferred dhc.Close().
Return(exit, err) ==
    /\ hcExit' = exit
    /\ hcErr' = err
    /\ open' = open \ {"hc"}
    /\ pc' = "hcReturned"

\* checkDockerStatusBrief, first step: the availability check; when docker
\* is not on the path, handleDockerNotInstalled prints the install options
\* and returns config.ErrorMessages.InstallRuntime.
handleDockerNotInstalled ==
    /\ shown' = shown \cup {"install", getPlatformConfiguration(goos).InstallOptions}
    /\ Return("notInstalled", "ErrInstallRuntime")

checkDockerStatusBrief ==
    /\ pc = "checkDockerStatusBrief"
    /\ IF ~IsDockerAvailable
         THEN handleDockerNotInstalled
         ELSE /\ pc' = "NewDockerHealthChecker"
              /\ UNCHANGED <<shown, hcExit, hcErr, open>>
    /\ UNCHANGED <<clVars, appVars, cmVars, envVars, opVars, wrVars, newClientCalls, pings, firstPing,
                   pingOk, prompts, launches, launched, startupCalls>>

\* checkDockerStatusBrief: dhc, err := NewDockerHealthChecker().
checkDockerStatusBrief_NewClient ==
    /\ pc = "NewDockerHealthChecker"
    /\ newClientCalls' = newClientCalls + 1
    /\ \E ok \in BOOLEAN :
         IF ok
           THEN /\ open' = open \cup {"hc"}
                /\ pc' = "CheckDockerDaemon"
                /\ UNCHANGED <<hcExit, hcErr>>
           ELSE /\ hcExit' = "clientFailed"
                /\ hcErr' = "ErrCreateClient"
                /\ pc' = "hcReturned"
                /\ UNCHANGED open
    /\ UNCHANGED <<clVars, appVars, cmVars, envVars, opVars, wrVars, pings, firstPing, pingOk, prompts,
                   launches, launched, startupCalls, shown>>

\* handleWindowsDockerError / handleLinuxDockerError: print the
\* troubleshooting tips of the platform and return a fixed error.
\* Variant: the tips are printed and nil is returned.
handleWindowsDockerError_Nil ==
    /\ shown' = shown \cup {"tips_windows"}
    /\ Return("windows", "nil")

handleWindowsDockerError ==
    /\ shown' = shown \cup {getPlatformConfiguration("windows").Troubleshooting}
    /\ Return("windows", "ErrDockerDesktopManual")

handleLinuxDockerError ==
    /\ shown' = shown \cup {getPlatformConfiguration("linux").Troubleshooting}
    /\ Return("linux", "ErrDockerDaemonManual")

\* Variant: only linux is given the plain tips; every other system goes to
\* the recovery prompt.
handleDockerDaemonError_PromptUnlessLinux ==
    IF goos # PlatformLinux
      THEN /\ shown' = shown \cup {"tips_darwin"}
           /\ pc' = "handleMacOSDockerError"
           /\ UNCHANGED <<hcExit, hcErr, open>>
      ELSE handleLinuxDockerError

\* handleDockerDaemonError: the switch on runtime.GOOS; on darwin the
\* troubleshooting tips are printed and the recovery prompt follows.
handleDockerDaemonError ==
    IF goos = PlatformDarwin
      THEN /\ shown' = shown \cup {getPlatformConfiguration(goos).Troubleshooting}
           /\ pc' = "handleMacOSDockerError"
           /\ UNCHANGED <<hcExit, hcErr, open>>
      ELSE IF goos = PlatformWindows
             THEN handleWindowsDockerError
             ELSE handleLinuxDockerError

\* checkDockerStatusBrief: err = dhc.CheckDockerDaemon() and the branch on it.
checkDockerStatusBrief_Ping ==
    /\ pc = "CheckDockerDaemon"
    /\ pings' = pings + 1
    /\ \E ok \in BOOLEAN :
         /\ firstPing' = IF ok THEN "ok" ELSE "failed"
         /\ pingOk' = ok
         /\ IF ok
              THEN /\ pc' = "offerDetailedDockerInfo"
                   /\ UNCHANGED <<shown, hcExit, hcErr, open>>
              ELSE handleDockerDaemonError
    /\ UNCHANGED <<clVars, appVars, cmVars, envVars, opVars, wrVars, newClientCalls, prompts, launches, launched,
                   startupCalls>>

\* offerDetailedDockerInfo: the Confirm prompt; a failed prompt or "no"
\* returns nil, "yes" goes on to showDetailedDockerStatus.
offerDetailedDockerInfo ==
    /\ pc = "offerDetailedDockerInfo"
    /\ \E answer \in {"err", "no", "yes"} :
         IF answer = "yes"
           THEN /\ pc' = "showDetailedDockerStatus"
                /\ UNCHANGED <<hcExit, hcErr, open>>
           ELSE Return("ok", "nil")
    /\ UNCHANGED <<clVars, appVars, cmVars, envVars, opVars, wrVars, newClientCalls, pings, firstPing,
                   pingOk, prompts, launches, launched, startupCalls, shown>>

\* showDetailedDockerStatus: a second client is created; failing to create
\* it is returned as an error, the version and info queries only warn.
showDetailedDockerStatus ==
    /\ pc = "showDetailedDockerStatus"
    /\ newClientCalls' = newClientCalls + 1
    /\ \E ok \in BOOLEAN :
         IF ok
           THEN /\ open' = open \cup {"detail"}
                /\ pc' = "ServerVersion"
                /\ UNCHANGED <<hcExit, hcErr>>
           ELSE Return("detailClientFailed", "ErrCreateClient")
    /\ UNCHANGED <<clVars, appVars, cmVars, envVars, opVars, wrVars, pings, firstPing, pingOk, prompts,
                   launches, launched, startupCalls, shown>>

\* showDetailedDockerStatus: the ServerVersion and Info queries on the second
\* client, whose failure only prints a warning; `return nil` runs the
\* deferred dhc.Close() of this function and then that of
\* checkDockerStatusBrief.
showDetailedDockerStatus_Queries ==
    /\ pc = "ServerVersion"
    /\ shown' = shown \cup {"details"}
    /\ hcExit' = "ok"
    /\ hcErr' = "nil"
    /\ open' = open \ {"detail", "hc"}
    /\ pc' = "hcReturned"
    /\ UNCHANGED <<clVars, appVars, cmVars, envVars, opVars, wrVars, newClientCalls, pings, firstPing,
                   pingOk, prompts, launches, launched, startupCalls>>

\* Entering waitAndRetryDocker: prints the waiting message, i := 0.
EnterWaitAndRetry ==
    /\ wrCalls' = wrCalls + 1
    /\ i' = 0
    /\ pc' = "waitAndRetryDocker"
    /\ UNCHANGED <<wrStarted, wrPings, wrOkAt, sleeps, slept>>

\* Variant: the recovery choice is offered again in place of the startup
\* options.
EnterStartupOptions_BackToChoice ==
    /\ pc' = "handleMacOSDockerError"

\* Entering showStartupOptions.
EnterStartupOptions ==
    /\ pc' = "showStartupOptions"

\* handleMacOSDockerError: the Select prompt and the switch on the answer.
handleMacOSDockerError ==
    /\ pc = "handleMacOSDockerError"
    /\ prompts' = prompts + 1
    /\ \E action \in RuntimeAnswers :
         CASE action = "err" ->
                /\ Return("promptAborted", "ErrPrompt")
                /\ UNCHANGED wrVars
           [] action = "opt0" ->
                /\ pc' = "attemptContainerRuntimeStart"
                /\ UNCHANGED <<hcExit, hcErr, open, wrVars>>
           [] action = "opt1" ->
                /\ EnterWaitAndRetry
                /\ UNCHANGED <<hcExit, hcErr, open>>
           [] action = "opt2" ->
                /\ EnterStartupOptions
                /\ UNCHANGED <<hcExit, hcErr, open, wrVars>>
           [] OTHER ->
                /\ Return("unknownChoice", "ErrStartRuntimeManually")
                /\ UNCHANGED wrVars
    /\ UNCHANGED <<clVars, appVars, cmVars, envVars, opVars, newClientCalls, pings, firstPing, pingOk,
                   launches, launched, startupCalls, shown>>

\* Variant: colima is looked for before orbctl.
RuntimeToStart_ColimaFirst ==
    IF colimaOnPath THEN "colima"
    ELSE IF orbctlOnPath THEN "orbstack"
    ELSE "docker"

\* attemptContainerRuntimeStart on darwin (its only caller is the macOS
\* handler): the first runtime present, in the order orbctl, colima,
\* Docker Desktop.
RuntimeToStart ==
    IF orbctlOnPath THEN "orbstack"
    ELSE IF colimaOnPath THEN "colima"
    ELSE "docker"

\* attemptOrbStackStart, attemptColimaStart and the Docker Desktop branch:
\* one launch; on failure the instructions of that runtime, on success
\* waitAndRetryDocker.
attemptContainerRuntimeStart ==
    /\ pc = "attemptContainerRuntimeStart"
    /\ launches' = launches + 1
    /\ \E ok \in BOOLEAN :
         /\ launched' = launched \cup {<<RuntimeToStart, ok>>}
         /\ IF ok
              THEN /\ EnterWaitAndRetry
                   /\ UNCHANGED <<hcExit, hcErr, open, shown>>
              ELSE CASE RuntimeToStart = "orbstack" ->
                          /\ shown' = shown \cup {"orbstack"}
                          /\ Return("launchFailed", "ErrStartOrbStack")
                          /\ UNCHANGED wrVars
                     [] RuntimeToStart = "colima" ->
                          /\ shown' = shown \cup {"colima"}
                          /\ Return("launchFailed", "ErrStartColima")
                          /\ UNCHANGED wrVars
                     [] OTHER ->
                          /\ EnterStartupOptions
                          /\ UNCHANGED <<hcExit, hcErr, open, shown, wrVars>>
    /\ UNCHANGED <<clVars, appVars, cmVars, envVars, opVars, newClientCalls, pings, firstPing, pingOk,
                   prompts, startupCalls>>

\* Variant: the sleep stands between two iterations, not before the first.
BeginIteration_SleepBetween ==
    /\ sleeps' = IF i > 0 THEN sleeps + 1 ELSE sleeps
    /\ slept' = IF i > 0 THEN slept + RetryInterval ELSE slept
    /\ wrStarted' = wrStarted + 1
    /\ pc' = "wrNewDockerHealthChecker"

\* waitAndRetryDocker: the loop body begins with time.Sleep(RetryInterval),
\* in the first iteration as in every other.
BeginIteration ==
    /\ sleeps' = sleeps + 1
    /\ slept' = slept + RetryInterval
    /\ wrStarted' = wrStarted + 1
    /\ pc' = "wrNewDockerHealthChecker"

\* waitAndRetryDocker, loop head: while the condition holds the iteration
\* begins with time.Sleep(RetryInterval); otherwise the failure message is
\* printed and showStartupOptions follows.
waitAndRetryDocker ==
    /\ pc = "waitAndRetryDocker"
    /\ IF LoopCond(i)
         THEN /\ BeginIteration
              /\ UNCHANGED shown
         ELSE /\ shown' = shown \cup {"wrFailed"}
              /\ EnterStartupOptions
              /\ UNCHANGED <<sleeps, slept, wrStarted>>
    /\ UNCHANGED <<clVars, appVars, cmVars, envVars, opVars, wrCalls, i, wrPings, wrOkAt,
                   newClientCalls, open, pings, firstPing, pingOk, prompts,
                   launches, launched, startupCalls, hcExit, hcErr>>

\* waitAndRetryDocker: dhc, err := NewDockerHealthChecker(); on error
\* `continue` (i++).
waitAndRetryDocker_NewClient ==
    /\ pc = "wrNewDockerHealthChecker"
    /\ newClientCalls' = newClientCalls + 1
    /\ \E ok \in BOOLEAN :
         IF ok
           THEN /\ open' = open \cup {"wr"}
                /\ pc' = "wrCheckDockerDaemon"
                /\ UNCHANGED i
           ELSE /\ i' = i + 1
                /\ pc' = "waitAndRetryDocker"
                /\ UNCHANGED open
    /\ UNCHANGED <<clVars, appVars, cmVars, envVars, opVars, wrCalls, wrStarted, wrPings, wrOkAt,
                   sleeps, slept, pings, firstPing, pingOk, prompts, launches,
                   launched,
                   startupCalls, shown, hcExit, hcErr>>

\* Variant: a successful ping is noted, but the loop goes on.
AfterRetryPing_NoReturn(ok) ==
    /\ wrOkAt' = IF ok /\ wrOkAt = 0 THEN wrStarted ELSE wrOkAt
    /\ i' = i + 1
    /\ open' = open \ {"wr"}
    /\ pc' = "waitAndRetryDocker"
    /\ UNCHANGED <<hcExit, hcErr>>

\* Variant: a failed ping goes back to the loop head without i++.
AfterRetryPing_NoIncrement(ok) ==
    IF ok
      THEN /\ wrOkAt' = wrStarted
           /\ hcExit' = "ready"
           /\ hcErr' = "nil"
           /\ open' = open \ {"wr", "hc"}
           /\ pc' = "hcReturned"
           /\ UNCHANGED i
      ELSE /\ open' = open \ {"wr"}
           /\ pc' = "waitAndRetryDocker"
           /\ UNCHANGED <<i, wrOkAt, hcExit, hcErr>>

\* waitAndRetryDocker: what follows the ping of an iteration: on success
\* return nil, otherwise print the progress line and i++.
AfterRetryPing(ok) ==
    IF ok
      THEN /\ wrOkAt' = wrStarted
           /\ hcExit' = "ready"
           /\ hcErr' = "nil"
           /\ open' = open \ {"wr", "hc"}
           /\ pc' = "hcReturned"
           /\ UNCHANGED i
      ELSE /\ i' = i + 1
           /\ open' = open \ {"wr"}
           /\ pc' = "waitAndRetryDocker"
           /\ UNCHANGED <<wrOkAt, hcExit, hcErr>>

\* waitAndRetryDocker: err = dhc.CheckDockerDaemon(); dhc.Close().
waitAndRetryDocker_Ping ==
    /\ pc = "wrCheckDockerDaemon"
    /\ pings' = pings + 1
    /\ wrPings' = wrPings + 1
    /\ \E ok \in BOOLEAN :
         /\ pingOk' = (pingOk \/ ok)
         /\ AfterRetryPing(ok)
    /\ UNCHANGED <<clVars, appVars, cmVars, envVars, opVars, wrCalls, wrStarted, sleeps, slept,
                   newClientCalls, firstPing, prompts, launches, launched, startupCalls,
                   shown>>

\* showManualStartup / showAutoStartSetup
showManualStartup ==
    /\ shown' = shown \cup {"manual", getStartupInstructions(goos, "manual")}
    /\ Return("manual", "ErrManualStartup")

showAutoStartSetup ==
    /\ shown' = shown \cup {"auto", getStartupInstructions(goos, "auto")}
    /\ Return("auto", "ErrAutoStartSetup")

\* showStartupOptions: the Select prompt and the switch on the choice.
showStartupOptions ==
    /\ pc = "showStartupOptions"
    /\ startupCalls' = startupCalls + 1
    /\ \E choice \in StartupAnswers :
         CASE choice = "err" ->
                /\ Return("startupAborted", "ErrPrompt")
                /\ UNCHANGED shown
           [] choice = "opt0" -> showManualStartup
           [] choice = "opt1" -> showAutoStartSetup
           [] OTHER ->
                /\ Return("startupDefault", "ErrStartRuntimeManually")
                /\ UNCHANGED shown
    /\ UNCHANGED <<clVars, appVars, cmVars, envVars, opVars, wrVars, newClientCalls, pings, firstPing,
                   pingOk, prompts, launches, launched>>

----------------------------------------------------------------------------
(* Error texts and the registry error classifier (pkg/docker/registry.go) *)

\* A text is a sequence of fragments, written out with a blank between
\* neighbours; NL is a line break.  Every fragment holds at most one of the
\* literals of the patterns below, so a pattern `a.*b` matches when a and b
\* occur in two fragments in this order.
NL == "\n"

ClassifierTokens ==
    { "error from registry", "gitlab.com", "registry.gitlab.com",
      "registry.example.org", "ghcr.io", "HTTP Basic", "Access denied",
      "unauthorized", "authentication required", "pull access denied",
      "repository does not exist or may require", "docker login",
      "unable to get image 'registry.gitlab.com/g/app'", NL }

\* strings.Contains / literal regexp match of one fragment: the pattern
\* literals that occur in the fragment (matching is case sensitive, so
\* "pull access denied" does not hold "Access denied").
Lits(tok) ==
    CASE tok = "registry.gitlab.com" -> {"gitlab.com"}
      [] tok = "unable to get image 'registry.gitlab.com/g/app'" ->
             {"gitlab.com"}
      [] tok = "registry.example.org" -> {}
      [] tok = NL -> {}
      [] OTHER -> {tok}

\* The rest of a pattern lit1.*lit2...: `.` does not match a line break, so
\* no NL may lie between two consecutive literals.
RECURSIVE MatchRest(_, _, _)
MatchRest(text, lits, prev) ==
    IF lits = <<>>
      THEN TRUE
      ELSE \E q \in (prev + 1) .. Len(text) :
             /\ Head(lits) \in Lits(text[q])
             /\ \A k \in (prev + 1) .. (q - 1) : text[k] # NL
             /\ MatchRest(text, Tail(lits), q)

\* regexp.MatchString: the pattern matches anywhere in the text.
MatchString(lits, text) ==
    \E p \in 1 .. Len(text) :
        /\ Head(lits) \in Lits(text[p])
        /\ MatchRest(text, Tail(lits), p)

\* DetectRegistryError: the `patterns` map, each regular expression given by
\* its literals, which `.*` separates.
patterns ==
    [ gitlab_auth |->
          <<"error from registry", "gitlab.com", "HTTP Basic", "Access denied">>,
      github_auth |-> <<"error from registry", "ghcr.io", "unauthorized">>,
      dockerhub_auth |->
          <<"pull access denied", "repository does not exist or may require",
            "docker login">>,
      generic_auth |-> <<"unauthorized", "authentication required">>,
      registry_access |-> <<"error from registry", "Access denied">> ]

ErrorTypes == DOMAIN patterns

\* The capture of `registry\.([a-zA-Z0-9.-]+)` in one fragment, "" if the
\* fragment has no match.
RegistryCapture(tok) ==
    CASE tok = "registry.gitlab.com" -> "gitlab.com"
      [] tok = "unable to get image 'registry.gitlab.com/g/app'" ->
             "gitlab.com"
      [] tok = "registry.example.org" -> "example.org"
      [] OTHER -> ""

\* The capture of `unable to get image '([^']+)'` in one fragment.
ImageCapture(tok) ==
    IF tok = "unable to get image 'registry.gitlab.com/g/app'"
      THEN "registry.gitlab.com/g/app"
      ELSE ""

\* FindStringSubmatch: the capture of the leftmost match, "" without match.
RECURSIVE FirstRegistry(_, _)
FirstRegistry(text, k) ==
    IF k > Len(text)
      THEN ""
      ELSE IF RegistryCapture(text[k]) # ""
             THEN RegistryCapture(text[k])
             ELSE FirstRegistry(text, k + 1)

RECURSIVE FirstImage(_, _)
FirstImage(text, k) ==
    IF k > Len(text)
      THEN ""
      ELSE IF ImageCapture(text[k]) # ""
             THEN ImageCapture(text[k])
             ELSE FirstImage(text, k + 1)

\* `registry` and `image` of DetectRegistryError
ExtractRegistry(text) == FirstRegistry(text, 1)
ExtractImage(text) == FirstImage(text, 1)

\* strings.Contains on a registry host: the hosts the fragments yield are
\* "gitlab.com" and "example.org", of which none holds another.
Contains(s, sub) == s = sub

\* getRegistryURL
getRegistryURL(registry) ==
    IF Contains(registry, "gitlab.com")
      THEN "registry.gitlab.com"
      ELSE IF Contains(registry, "github.com") \/ Contains(registry, "ghcr.io")
             THEN "ghcr.io"
             ELSE registry

\* A suggestion line: its fixed text and the argument formatted into it.
Line(t) == <<t, "">>

\* getRegistrySuggestions
getRegistrySuggestions(errorType, registry) ==
    CASE errorType = "gitlab_auth" ->
           << Line("Create a GitLab Personal Access Token with 'read_registry' scope"),
              <<"Run: docker login", getRegistryURL(registry)>>,
              Line("Use your GitLab username and the Personal Access Token as password"),
              Line("GitLab tokens: https://gitlab.com/-/profile/personal_access_tokens") >>
      [] errorType = "github_auth" ->
           << Line("Create a GitHub Personal Access Token with 'read:packages' scope"),
              <<"Run: docker login", "ghcr.io">>,
              Line("Use your GitHub username and the Personal Access Token as password"),
              Line("GitHub tokens: https://github.com/settings/tokens") >>
      [] errorType = "dockerhub_auth" ->
           << Line("Run: docker login"),
              Line("Use your Docker Hub username and password"),
              Line("Or create an Access Token in Docker Hub settings") >>
      [] OTHER ->
           << <<"Run: docker login", "<registry-url>">>,
              Line("Use appropriate credentials for the registry"),
              Line("Check if the image exists and you have permission to access it") >>

\* The nil *RegistryError.
NilRegistryError ==
    [Registry |-> "", ErrorType |-> "nil", Image |-> "", Suggestions |-> <<>>]

\* The &RegistryError{...} built for the error type found.
RegistryError(errorType, text) ==
    [ Registry |-> ExtractRegistry(text),
      ErrorType |-> errorType,
      Image |-> ExtractImage(text),
      Suggestions |-> getRegistrySuggestions(errorType, ExtractRegistry(text)) ]

\* The error types whose pattern matches the text.
Matching(text) == {t \in ErrorTypes : MatchString(patterns[t], text)}

\* Variant: a text in which no registry host is found is not classified.
DetectRegistryError_NeedsRegistry(text) ==
    IF Matching(text) = {} \/ ExtractRegistry(text) = ""
      THEN {NilRegistryError}
      ELSE {RegistryError(t, text) : t \in Matching(text)}

\* DetectRegistryError with a result for every text: a text that matches no
\* pattern is given the generic type.
DetectRegistryError_NoNil(text) ==
    IF Matching(text) = {}
      THEN {RegistryError("generic_auth", text)}
      ELSE {RegistryError(t, text) : t \in Matching(text)}

\* DetectRegistryError: `for errorType, pattern := range patterns` visits
\* the keys of a Go map in an order that differs from call to call, and the
\* first key visited whose pattern matches is returned: each matching key
\* can be that one.  The results one call can produce:
DetectRegistryError(text) ==
    IF Matching(text) = {}
      THEN {NilRegistryError}
      ELSE {RegistryError(t, text) : t \in Matching(text)}

----------------------------------------------------------------------------

(* The compose operations of the ComposeManager *)

\* StartProject, StopProject, RestartProject, PauseProject, UnpauseProject,
\* PullImages, BuildImages, ViewLogs, named by their compose command.
Operations ==
    {"up", "down", "restart", "pause", "unpause", "pull", "build", "logs"}

\* Argument lists given to ExecuteDockerComposeCommand: none, a supported
\* command, or "ps", which stands for every command outside the switch.
LegacyArgs == {<<>>} \cup {<<c>> : c \in Operations \cup {"ps"}}

\* Texts the failed command can print.
ErrorOutputs ==
    { <<"error from registry", "registry.gitlab.com", "HTTP Basic",
        "Access denied">>,
      <<"error from registry", "ghcr.io", "unauthorized">>,
      <<"pull access denied", "repository does not exist or may require",
        "docker login">>,
      <<"unauthorized", "authentication required">>,
      <<"error from registry", "Access denied">>,
      <<"no such file or directory">>,
      <<"Cannot connect to the Docker daemon">>,
      <<>> }

\* The path utils.GetComposeFilePath(projectDir) returns.
composeFilePath == "/srv/a/docker-compose.yml"

\* The arguments the methods of the ComposeManager give to docker:
\* "compose", "-f", composeFilePath and the command; the options that
\* follow the command are left out.
CommandArgs(c) == <<"compose", "-f", composeFilePath, c>>

\* ExecuteDockerComposeCommand, default case:
\* append([]string{"compose", "-f"}, args...)
DirectArgs(args) == <<"compose", "-f">> \o args

\* The operation returns err to its caller.
OpReturn(err) ==
    /\ opErr' = err
    /\ pc' = "opReturned"

\* The root, status, health and auth commands call CheckDockerStatus on its
\* own.
CheckDockerStatus ==
    /\ pc = "idle"
    /\ entry' = "check"
    /\ pc' = "checkDockerStatusBrief"
    /\ UNCHANGED <<clVars, appVars, cmVars, envVars, command, dockerArgs,
                   wrVars, hcVars>>

\* A method of the ComposeManager is called; each begins with
\* `if err := CheckDockerStatus(); err != nil { return err }`.
ComposeOperation ==
    /\ pc = "idle"
    /\ \E c \in Operations : command' = c
    /\ entry' = "method"
    /\ pc' = "checkDockerStatusBrief"
    /\ UNCHANGED <<clVars, appVars, cmVars, envVars, dockerArgs, wrVars,
                   hcVars>>

\* ExecuteDockerComposeCommand: NewComposeManager, the check of len(args),
\* and the switch on args[0]; the default case executes the command at once.
ExecuteDockerComposeCommand ==
    /\ pc = "idle"
    /\ entry' = "legacy"
    /\ \E ok \in BOOLEAN, args \in LegacyArgs :
         CASE ~ok ->
                /\ OpReturn("ErrCreateComposeManager")
                /\ UNCHANGED <<command, dockerArgs>>
           [] ok /\ Len(args) = 0 ->
                /\ OpReturn("ErrNoCommand")
                /\ UNCHANGED <<command, dockerArgs>>
           [] ok /\ Len(args) > 0 /\ args[1] \in Operations ->
                /\ command' = args[1]
                /\ pc' = "checkDockerStatusBrief"
                /\ UNCHANGED <<opErr, dockerArgs>>
           [] OTHER ->
                /\ command' = args[1]
                /\ dockerArgs' = DirectArgs(args)
                /\ pc' = "executeCommandWithErrorHandling"
                /\ UNCHANGED opErr
    /\ UNCHANGED <<clVars, appVars, composeRuns, cmdErr, errorOutput, regError,
                   envVars, wrVars, hcVars>>

\* After CheckDockerStatus returned: a failed check is returned as is;
\* otherwise LoadProject (not for logs) and utils.GetComposeFilePath, each
\* of which can fail, and then the command.
PrepareCommand ==
    /\ pc = "hcReturned"
    /\ entry \in {"method", "legacy"}
    /\ IF hcErr # "nil"
         THEN OpReturn(hcErr)
         ELSE \E r \in {"ok", "ErrLoadProject", "ErrComposeFilePath"} :
                /\ r = "ErrLoadProject" => command # "logs"
                /\ IF r = "ok"
                     THEN /\ pc' = "executeCommandWithErrorHandling"
                          /\ UNCHANGED opErr
                     ELSE OpReturn(r)
    /\ dockerArgs' = IF pc' = "executeCommandWithErrorHandling"
                       THEN CommandArgs(command)
                       ELSE dockerArgs
    /\ UNCHANGED <<clVars, appVars, composeRuns, cmdErr, errorOutput, regError,
                   envVars, entry, command, wrVars, hcVars>>

\* executeCommandWithErrorHandling: cmd.Run() of `docker <args>`.  The
\* error is an *exec.ExitError (the command ran and failed) or another error
\* (the command could not be started).
executeCommandWithErrorHandling ==
    /\ pc = "executeCommandWithErrorHandling"
    /\ composeRuns' = composeRuns + 1
    /\ \E err \in {"nil", "ExitError", "StartError"} :
         IF err = "nil"
           THEN /\ OpReturn("nil")
                /\ UNCHANGED cmdErr
           ELSE /\ cmdErr' = err
                /\ pc' = "captureErrorOutput"
                /\ UNCHANGED opErr
    /\ UNCHANGED <<clVars, appVars, errorOutput, regError, envVars, opVars, wrVars,
                   hcVars>>

\* exitError.Stderr: cmd.Stderr is set to os.Stderr, so Run does not fill it.
ExitErrorStderr == <<>>

\* err.Error() of the error of cmd.Run().
ErrorText(err) ==
    IF err = "ExitError" THEN <<"exit status 1">> ELSE <<"exec failed">>

\* strings.Contains(text, lit)
HasFragment(text, lit) == \E k \in 1 .. Len(text) : lit \in Lits(text[k])

\* The checks after a nil regError left out: the error of cmd.Run() is
\* returned whatever the output holds.
FailureError_AsIs(err, errorStr) == err

\* executeCommandWithErrorHandling: the checks that follow a nil regError.
FailureError(err, errorStr) ==
    IF /\ err = "ExitError"
       /\ \/ HasFragment(ExitErrorStderr, "Cannot connect to the Docker daemon")
          \/ HasFragment(ErrorText(err), "connection refused")
      THEN "ErrDaemonNotRunning"
      ELSE IF HasFragment(errorStr, "no such file or directory")
             THEN "ErrComposeFileNotFound"
             ELSE err

\* executeCommandWithErrorHandling, err != nil: the command is executed again
\* (cmdForError.CombinedOutput()) to capture its output, which
\* DetectRegistryError classifies.
executeCommandWithErrorHandling_Capture ==
    /\ pc = "captureErrorOutput"
    /\ composeRuns' = composeRuns + 1
    /\ \E errorStr \in ErrorOutputs :
         /\ errorOutput' = errorStr
         /\ \E re \in DetectRegistryError(errorStr) :
              /\ regError' = re
              /\ IF re # NilRegistryError
                   THEN /\ pc' = "HandleRegistryError"
                        /\ UNCHANGED opErr
                   ELSE OpReturn(FailureError(cmdErr, errorStr))
    /\ UNCHANGED <<clVars, appVars, cmdErr, envVars, opVars, wrVars, hcVars>>

\* openRegistryDocs
openRegistryDocs(re) ==
    IF re.ErrorType \in {"gitlab_auth", "github_auth", "dockerhub_auth"}
      THEN "ErrFollowDocumentation"
      ELSE "ErrAuthRequired"

\* HandleRegistryError: the details and suggestions are printed, then the
\* Select prompt and the switch on the answer.
HandleRegistryError ==
    /\ pc = "HandleRegistryError"
    /\ \E action \in {"err", "login", "guide", "skip", "docs"} :
         CASE action = "err" -> OpReturn("ErrPrompt")
           [] action = "login" ->
                /\ pc' = "assistWithLogin"
                /\ UNCHANGED opErr
           [] action = "guide" -> OpReturn("ErrFollowAuthSteps")
           [] action = "skip" -> OpReturn("ErrAuthSkipped")
           [] OTHER -> OpReturn(openRegistryDocs(regError))
    /\ UNCHANGED <<clVars, appVars, composeRuns, cmdErr, errorOutput, regError,
                   envVars, opVars, wrVars, hcVars>>

\* assistWithLogin: what the function returns after the user name prompt,
\* the password prompt and `docker login`.
LoginResult(outcome) ==
    CASE outcome = "usernameErr" -> "ErrPrompt"
      [] outcome = "passwordErr" -> "ErrPrompt"
      [] outcome = "loginFailed" -> "ErrLoginFailed"
      [] OTHER -> "nil"

assistWithLogin ==
    /\ pc = "assistWithLogin"
    /\ \E outcome \in {"usernameErr", "passwordErr", "loginFailed", "loginOk"} :
         OpReturn(LoginResult(outcome))
    /\ UNCHANGED <<clVars, appVars, composeRuns, cmdErr, errorOutput, regError,
                   envVars, opVars, wrVars, hcVars>>

----------------------------------------------------------------------------

\* projects.json does not exist.
AbsentFile == [exists |-> FALSE, valid |-> FALSE, data |-> {}]

\* No projects file, and the empty map that init() of the package leaves.
NoProjectsFile ==
    /\ file = AbsentFile
    /\ fileAtStart = AbsentFile
    /\ projectsMap = {}
    /\ map0 = {}
    /\ file0 = AbsentFile

\* The loops over a list of projects: the start loop of the root command,
\* the loop of retryFailedProjects and the loop of fixAllProjectIssues.
Loops == {"start", "retry", "fix"}

\* No operation has begun.
InitFlow ==
    /\ pc = "idle"
    /\ entry = "none"
    /\ command = "none"
    /\ dockerArgs = <<>>
    /\ newClientCalls = 0
    /\ open = {}
    /\ pings = 0
    /\ firstPing = "none"
    /\ pingOk = FALSE
    /\ prompts = 0
    /\ launches = 0
    /\ launched = {}
    /\ wrCalls = 0
    /\ i = 0
    /\ wrStarted = 0
    /\ wrPings = 0
    /\ wrOkAt = 0
    /\ sleeps = 0
    /\ slept = 0
    /\ startupCalls = 0
    /\ shown = {}
    /\ hcExit = "none"
    /\ hcErr = "none"
    /\ composeRuns = 0
    /\ cmdErr = "nil"
    /\ errorOutput = <<>>
    /\ regError = NilRegistryError
    /\ opErr = "none"
    /\ cliCmd = "none"
    /\ cliArgs = <<>>
    /\ operated = {}
    /\ cliOut = "none"
    /\ caller = "none"
    /\ preAnswer = "none"
    /\ preErr = "none"
    /\ loadCalls = 0
    /\ addCalls = 0
    /\ opDone = "none"
    /\ opResult = "none"
    /\ picked = <<"", "">>
    /\ confirm = "none"
    /\ writes = 0
    /\ writes0 = 0
    /\ exitCode = "none"
    /\ runner = "none"
    /\ loop = "none"
    /\ selected = <<>>
    /\ successCount = [l \in Loops |-> 0]
    /\ failedProjects = [l \in Loops |-> <<>>]
    /\ stopped = [l \in Loops |-> FALSE]
    /\ results = [l \in Loops |-> <<>>]
    /\ statuses = <<>>

Init ==
    /\ goos \in GOOSValues
    /\ dockerOnPath \in BOOLEAN
    /\ orbctlOnPath \in BOOLEAN
    /\ colimaOnPath \in BOOLEAN
    /\ InitFlow
    /\ NoProjectsFile
    /\ input = <<>>
    /\ out1 = NilRegistryError
    /\ out2 = NilRegistryError
    /\ calls = 0

----------------------------------------------------------------------------
(* The classifier applied to every text of bounded length *)

MaxTextLen == 4

Texts == UNION {[1 .. n -> ClassifierTokens] : n \in 0 .. MaxTextLen}

InitClassify ==
    /\ goos = PlatformLinux
    /\ dockerOnPath = TRUE
    /\ orbctlOnPath = FALSE
    /\ colimaOnPath = FALSE
    /\ InitFlow
    /\ NoProjectsFile
    /\ input \in Texts
    /\ out1 = NilRegistryError
    /\ out2 = NilRegistryError
    /\ calls = 0

\* The first call of DetectRegistryError(input).
Classify ==
    /\ calls = 0
    /\ out1' \in DetectRegistryError(input)
    /\ calls' = 1
    /\ UNCHANGED <<envVars, pc, opVars, wrVars, hcVars, cmVars, appVars, input,
                   out2>>

\* A second call on the same text.
ClassifyAgain ==
    /\ calls = 1
    /\ out2' \in DetectRegistryError(input)
    /\ calls' = 2
    /\ UNCHANGED <<envVars, pc, opVars, wrVars, hcVars, cmVars, appVars, input,
                   out1>>

NextClassify == Classify \/ ClassifyAgain

SpecClassify == InitClassify /\ [][NextClassify]_vars

----------------------------------------------------------------------------
(* The start and stop commands applied to every short argument list *)

\* docker.Projects: the names of the configured projects.
Projects == {"project1", "project2", "project3"}

\* Names given on the command line: the projects and a name that is not one.
ProjectNames == Projects \cup {"ghost"}

MaxArgs == 3

ArgLists == UNION {[1 .. n -> ProjectNames] : n \in 0 .. MaxArgs}

\* cobra.ExactArgs(n): the command is run only with exactly n arguments;
\* otherwise "accepts n arg(s), received m" and the Run function is not
\* called.
ExactArgs(n, args) == Len(args) = n

\* The Run function of startCmd and of stopCmd: the project args[0] is
\* looked up, its directory resolved, a ComposeManager created and
\* StartProject or StopProject called on it; every failure is printed and
\* ends the command.
RunProjectCommand(args) ==
    IF args[1] \notin Projects
      THEN /\ cliOut' = "Unknown project"
           /\ UNCHANGED operated
      ELSE \E r \in {"ErrResolveHomeDir", "ErrCreateComposeManager",
                      "ErrOperation", "ok"} :
             /\ cliOut' = r
             /\ operated' = IF r \in {"ErrOperation", "ok"}
                              THEN operated \cup {args[1]}
                              ELSE operated

\* A command with Args: cobra.ExactArgs(1) and the Run function above.
ProjectCommand(args) ==
    /\ cliArgs' = args
    /\ IF ExactArgs(1, args)
         THEN RunProjectCommand(args)
         ELSE /\ cliOut' = "ErrArgs"
              /\ UNCHANGED operated

\* dockyard start <args>
startCmd ==
    /\ pc = "idle"
    /\ cliCmd = "none"
    /\ cliCmd' = "start"
    /\ \E args \in ArgLists : ProjectCommand(args)
    /\ UNCHANGED <<flowVars, pc, clVars, pjVars, runVars>>

\* dockyard stop <args>
stopCmd ==
    /\ pc = "idle"
    /\ cliCmd = "none"
    /\ cliCmd' = "stop"
    /\ \E args \in ArgLists : ProjectCommand(args)
    /\ UNCHANGED <<flowVars, pc, clVars, pjVars, runVars>>

InitCli ==
    /\ goos = PlatformLinux
    /\ dockerOnPath = TRUE
    /\ orbctlOnPath = FALSE
    /\ colimaOnPath = FALSE
    /\ InitFlow
    /\ NoProjectsFile
    /\ input = <<>>
    /\ out1 = NilRegistryError
    /\ out2 = NilRegistryError
    /\ calls = 0

NextCli == startCmd \/ stopCmd

SpecCli == InitCli /\ [][NextCli]_vars

----------------------------------------------------------------------------
(* The projects file: the pre-run step and the manage command *)

\* Project names and directories the user can give.
Names == {"project1", "project2"}
Paths == {"/srv/a", "/srv/b"}

\* The values of map[string]string over them: sets of <<name, path>> with
\* one entry for a name at most.
Maps ==
    {m \in SUBSET (Names \X Paths) :
        \A e1, e2 \in m : e1[1] = e2[1] => e1 = e2}

\* The keys of a map.
Keys(m) == {e[1] : e \in m}

\* m[name] = path
Put(m, name, path) == {e \in m : e[1] # name} \cup {<<name, path>>}

\* delete(m, name)
Delete(m, name) == {e \in m : e[1] # name}

\* projects.json after os.WriteFile of json.Marshal(m).
Written(m) == [exists |-> TRUE, valid |-> TRUE, data |-> m]

\* projects.json as a process can find it: absent, present with a map in
\* it, or present and not readable as a map.
FileStates ==
    {AbsentFile, [exists |-> TRUE, valid |-> FALSE, data |-> {}]}
      \cup {Written(m) : m \in Maps}

\* Outcomes of survey.AskOne on a Select with the options Yes and No.
Answers == {"err", "Yes", "No"}

\* Variant: a file that cannot be read is taken for an empty one.
LoadProjectsFromFile_Lenient(f) == "nil"

\* LoadProjectsFromFile: os.ReadFile and json.Unmarshal; the error, if any.
LoadProjectsFromFile(f) == IF f.exists /\ f.valid THEN "nil" ELSE "ErrLoad"

\* A process that has begun nothing, whatever the projects file.
InitApp ==
    /\ goos = PlatformLinux
    /\ dockerOnPath = TRUE
    /\ orbctlOnPath = FALSE
    /\ colimaOnPath = FALSE
    /\ InitFlow
    /\ input = <<>>
    /\ out1 = NilRegistryError
    /\ out2 = NilRegistryError
    /\ calls = 0

\* init() of the package: the map read from projects.json, empty when that
\* fails.
InitProjects ==
    /\ InitApp
    /\ file \in FileStates
    /\ fileAtStart = file
    /\ file0 = file
    /\ projectsMap = IF LoadProjectsFromFile(file) = "nil" THEN file.data ELSE {}
    /\ map0 = projectsMap

\* os.Exit(code)
Exit(code) ==
    /\ exitCode' = code
    /\ pc' = "exited"

\* handlePersistentPreRun and CheckAndLoadProjectsFile up to the call of
\* AddProject: os.Stat, then the prompt when the file does not exist and
\* LoadProjectsFromFile when it does; an error returned is printed and the
\* process exits with status 1.
handlePersistentPreRun ==
    /\ pc = "idle"
    /\ IF ~file.exists
         THEN /\ \E answer \in Answers :
                   /\ preAnswer' = answer
                   /\ CASE answer = "err" ->
                             /\ preErr' = "ErrPrompt"
                             /\ Exit("1")
                             /\ UNCHANGED caller
                        [] answer = "Yes" ->
                             /\ caller' = "CheckAndLoadProjectsFile"
                             /\ pc' = "AddProject"
                             /\ UNCHANGED <<preErr, exitCode>>
                        [] OTHER ->
                             /\ Exit("1")
                             /\ UNCHANGED <<preErr, caller>>
              /\ UNCHANGED <<loadCalls, projectsMap>>
         ELSE /\ loadCalls' = loadCalls + 1
              /\ preErr' = LoadProjectsFromFile(file)
              /\ IF LoadProjectsFromFile(file) = "nil"
                   THEN /\ projectsMap' = projectsMap \cup file.data
                        /\ pc' = "loaded"
                        /\ UNCHANGED exitCode
                   ELSE /\ Exit("1")
                        /\ UNCHANGED projectsMap
              /\ UNCHANGED <<preAnswer, caller>>
    /\ UNCHANGED <<flowVars, clVars, cliVars, runVars, file, fileAtStart, addCalls,
                   opDone, opResult, picked, confirm, writes, map0, file0,
                   writes0>>

\* AddProject: the error it returns for the answers given, "nil" if none.
AddProjectResult(m, name, overwrite, path, hasDockerFiles, proceed, cf, saved) ==
    CASE name = "err" -> "ErrProjectName"
      [] name # "err" /\ name \in Keys(m) /\ overwrite = "err" -> "ErrPrompt"
      [] name # "err" /\ name \in Keys(m) /\ overwrite = "No" -> "ErrCancelled"
      [] OTHER ->
           CASE path = "err" -> "ErrBrowse"
             [] path # "err" /\ ~hasDockerFiles /\ proceed = "err" -> "ErrPrompt"
             [] path # "err" /\ ~hasDockerFiles /\ proceed = "No" -> "ErrCancelled"
             [] OTHER ->
                  CASE cf = "err" -> "ErrPrompt"
                    [] cf = "Yes" /\ ~saved -> "ErrSave"
                    [] OTHER -> "nil"

\* AddProject: the final confirmation was reached.
AddProjectAsked(m, name, overwrite, path, hasDockerFiles, proceed) ==
    /\ name # "err"
    /\ name \in Keys(m) => overwrite = "Yes"
    /\ path # "err"
    /\ ~hasDockerFiles => proceed = "Yes"

\* Variant: the entry is stored before the confirmation is asked for.
MapAfterAdd_Eager(m, name, path, cf) == Put(m, name, path)

\* AddProject: `if confirm == "Yes" { Projects[projectName] = projectPath`.
MapAfterAdd(m, name, path, cf) ==
    IF cf = "Yes" THEN Put(m, name, path) ELSE m

\* AddProject or RemoveProject returns to its caller.
OpReturns(op, result) ==
    /\ opDone' = op
    /\ opResult' = result
    /\ IF op = "AddProject" /\ caller = "CheckAndLoadProjectsFile"
         THEN /\ pc' = "SaveProjectsToFile"
              /\ UNCHANGED exitCode
         ELSE /\ pc' = "manageReturned"
              /\ exitCode' = "0"

\* AddProject: the prompts for the name, the overwrite, the directory, the
\* missing Docker files and the final confirmation, and after a Yes the
\* assignment and SaveProjectsToFile.
AddProject ==
    /\ pc = "AddProject"
    /\ addCalls' = addCalls + 1
    /\ map0' = projectsMap
    /\ file0' = file
    /\ writes0' = writes
    /\ \E name \in Names \cup {"err"}, overwrite \in Answers,
          path \in Paths \cup {"err"}, hasDockerFiles \in BOOLEAN,
          proceed \in Answers, cf \in Answers, saved \in BOOLEAN :
         IF AddProjectAsked(projectsMap, name, overwrite, path,
                            hasDockerFiles, proceed)
           THEN /\ confirm' = cf
                /\ picked' = <<name, path>>
                /\ projectsMap' = MapAfterAdd(projectsMap, name, path, cf)
                /\ writes' = IF cf = "Yes" THEN writes + 1 ELSE writes
                /\ file' = IF cf = "Yes" /\ saved
                             THEN Written(projectsMap')
                             ELSE file
                /\ OpReturns("AddProject",
                             AddProjectResult(projectsMap, name, overwrite,
                                              path, hasDockerFiles, proceed,
                                              cf, saved))
           ELSE /\ confirm' = "none"
                /\ picked' = <<"", "">>
                /\ OpReturns("AddProject",
                             AddProjectResult(projectsMap, name, overwrite,
                                              path, hasDockerFiles, proceed,
                                              cf, saved))
                /\ UNCHANGED <<projectsMap, writes, file>>
    /\ UNCHANGED <<flowVars, clVars, cliVars, runVars, fileAtStart, caller, preAnswer,
                   preErr, loadCalls>>

\* CheckAndLoadProjectsFile after AddProject: its error is returned;
\* otherwise SaveProjectsToFile(filePath), whose error is returned.
CheckAndLoadProjectsFile_Save ==
    /\ pc = "SaveProjectsToFile"
    /\ IF opResult # "nil"
         THEN /\ preErr' = opResult
              /\ Exit("1")
              /\ UNCHANGED <<writes, file>>
         ELSE /\ writes' = writes + 1
              /\ \E saved \in BOOLEAN :
                   IF saved
                     THEN /\ file' = Written(projectsMap)
                          /\ preErr' = "nil"
                          /\ pc' = "loaded"
                          /\ UNCHANGED exitCode
                     ELSE /\ preErr' = "ErrSave"
                          /\ Exit("1")
                          /\ UNCHANGED file
    /\ UNCHANGED <<flowVars, clVars, cliVars, runVars, projectsMap, fileAtStart, caller,
                   preAnswer, loadCalls, addCalls, opDone, opResult, picked,
                   confirm, map0, file0, writes0>>

\* manageCmd: the prompt Add / Remove.
manageCmd ==
    /\ pc = "loaded"
    /\ \E action \in {"err", "Add", "Remove"} :
         CASE action = "err" ->
                /\ pc' = "manageReturned"
                /\ exitCode' = "0"
                /\ UNCHANGED caller
           [] action = "Add" ->
                /\ caller' = "manageCmd"
                /\ pc' = "AddProject"
                /\ UNCHANGED exitCode
           [] OTHER ->
                /\ caller' = "manageCmd"
                /\ pc' = "RemoveProject"
                /\ UNCHANGED exitCode
    /\ UNCHANGED <<flowVars, clVars, cliVars, runVars, projectsMap, file, fileAtStart,
                   preAnswer, preErr, loadCalls, addCalls, opDone, opResult,
                   picked, confirm, writes, map0, file0, writes0>>

\* Variant: the entry is deleted as soon as it is selected.
MapAfterRemove_Eager(m, name, cf) == Delete(m, name)

\* RemoveProject: `if confirm == "Yes" { delete(Projects, projectToRemove)`.
MapAfterRemove(m, name, cf) == IF cf = "Yes" THEN Delete(m, name) ELSE m

\* RemoveProject: nothing to do on an empty map; otherwise the selection,
\* the confirmation, and after a Yes the deletion and SaveProjectsToFile.
RemoveProject ==
    /\ pc = "RemoveProject"
    /\ map0' = projectsMap
    /\ file0' = file
    /\ writes0' = writes
    /\ IF projectsMap = {}
         THEN /\ confirm' = "none"
              /\ picked' = <<"", "">>
              /\ OpReturns("RemoveProject", "nil")
              /\ UNCHANGED <<projectsMap, writes, file>>
         ELSE \E name \in Keys(projectsMap) \cup {"err"}, cf \in Answers,
                 saved \in BOOLEAN :
                IF name = "err"
                  THEN /\ confirm' = "none"
                       /\ picked' = <<"", "">>
                       /\ OpReturns("RemoveProject", "ErrPrompt")
                       /\ UNCHANGED <<projectsMap, writes, file>>
                  ELSE /\ confirm' = cf
                       /\ picked' = <<name, "">>
                       /\ projectsMap' = MapAfterRemove(projectsMap, name, cf)
                       /\ writes' = IF cf = "Yes" THEN writes + 1 ELSE writes
                       /\ file' = IF cf = "Yes" /\ saved
                                    THEN Written(projectsMap')
                                    ELSE file
                       /\ OpReturns("RemoveProject",
                                    CASE cf = "err" -> "ErrPrompt"
                                      [] cf = "Yes" /\ ~saved -> "ErrSave"
                                      [] OTHER -> "nil")
    /\ UNCHANGED <<flowVars, clVars, cliVars, runVars, fileAtStart, caller, preAnswer,
                   preErr, loadCalls, addCalls>>

NextProjects ==
    \/ handlePersistentPreRun
    \/ AddProject
    \/ CheckAndLoadProjectsFile_Save
    \/ manageCmd
    \/ RemoveProject

SpecProjects == InitProjects /\ [][NextProjects]_vars

----------------------------------------------------------------------------

----------------------------------------------------------------------------
(* The loops over the projects: root command, retry, health fix, status *)

\* A nil error.  Every other error is its message, a sequence of fragments;
\* strings.Contains finds a literal that is one of the fragments.
NilError == <<>>

\* fmt.Errorf("<prefix>%v", err) and fmt.Errorf("<prefix>%w", err)
Wrap(prefix, err) == <<prefix>> \o err

\* The messages of the errors CheckDockerStatus returns, which platforms.yaml
\* configures (error_messages): a text may hold a literal isDaemonError
\* looks for, or none.
ConfiguredMessages ==
    { <<"Docker daemon is not running", ". Start Docker and try again">>,
      <<"Start Docker and try again">> }

\* What Ping of the docker client returns when it fails.
PingErrors ==
    { <<"Cannot connect to the Docker daemon",
        " at unix:///var/run/docker.sock. Is the docker daemon running?">>,
      <<"context deadline exceeded">> }

\* What StartProject and RestartProject return: nil, the error of
\* CheckDockerStatus, of LoadProject or of executeCommandWithErrorHandling
\* (the error of cmd.Run(), the compose file error, a registry error).
OperationErrors ==
    {NilError} \cup ConfiguredMessages \cup
    { <<"failed to load compose project: ", "yaml: invalid">>,
      <<"exit status 1">>,
      <<"docker-compose file not found or invalid path">>,
      <<"registry authentication required">> }

\* What NewComposeManager returns.
ComposeManagerErrors ==
    {NilError, <<"failed to create Docker client: ", "invalid host">>}

\* What utils.ResolveHomeDir returns.
ResolveErrors == {NilError, <<"user: Current not implemented">>}

\* What cm.Close() returns.
CloseErrors == {NilError, <<"close: connection already closed">>}

\* docker.Projects while the loops run: two registered projects.
RegisteredProjects == {<<"project1", "/srv/a">>, <<"project2", "/srv/b">>}

\* docker.SelectProjects: a list of distinct registered names.
Selections ==
    { <<n>> : n \in Names } \cup
    { <<n, m>> : <<n, m>> \in { p \in Names \X Names : p[1] # p[2] } }

\* ensureDockerRunning: the error of NewDockerHealthChecker, wrapped, or
\* the error of the ping as it is.
EnsureErrors ==
    {NilError} \cup PingErrors \cup
    {Wrap("failed to create Docker health checker: ", <<"invalid host">>)}

\* GetProjectContainers
GetProjectContainers(ensureErr, listErr) ==
    IF ensureErr # NilError
      THEN Wrap("docker is not accessible: ", ensureErr)
      ELSE IF listErr # NilError
             THEN Wrap("failed to list containers: ", listErr)
             ELSE NilError

\* GetProjectStatus: the statuses ("nil", "empty": []ContainerStatus{},
\* "list": one status per container) and the error returned.
GetProjectStatus(loadErr, containersErr) ==
    IF loadErr # NilError
      THEN [statuses |-> "nil", err |-> loadErr]
      ELSE IF containersErr # NilError
             THEN IF HasFragment(containersErr, "Docker is not accessible")
                    THEN [statuses |-> "empty", err |-> NilError]
                    ELSE [statuses |-> "nil", err |-> containersErr]
             ELSE [statuses |-> "list", err |-> NilError]

\* executeWithComposeManager: the deferred Close only prints a warning.
executeWithComposeManager(cmErr, fnErr) ==
    IF cmErr # NilError
      THEN Wrap("failed to create compose manager: ", cmErr)
      ELSE fnErr

\* startSingleProject: result.err; result.success is err == nil.
startSingleProject(name, resolveErr, cmErr, startErr) ==
    IF name \notin Keys(projectsMap)
      THEN <<"unknown project: ", name>>
      ELSE IF resolveErr # NilError
             THEN Wrap("failed to resolve home directory: ", resolveErr)
             ELSE executeWithComposeManager(cmErr, startErr)

daemonErrors ==
    { "Docker daemon is not running", "Cannot connect to the Docker daemon",
      "connection refused", "Docker is not accessible" }

\* isDaemonError
isDaemonError(err) ==
    /\ err # NilError
    /\ \E daemonError \in daemonErrors : HasFragment(err, daemonError)

\* The list a loop ranges over.
ListOf(l) == IF l = "retry" THEN failedProjects["start"] ELSE selected

\* One attempt of a loop: whether the operation was called, what it
\* returned, what Close returned, and what was reported for the project.
Attempt(name, called, opError, closeErr, reported) ==
    [name |-> name, called |-> called, opErr |-> opError,
     closeErr |-> closeErr, reported |-> reported]

\* The body of a loop that counts the successes only.
Recorded_FailureDropped(l, attempt, err, daemonCheck, next) ==
    /\ results' = [results EXCEPT ![l] = Append(@, attempt)]
    /\ IF err = NilError
         THEN /\ successCount' = [successCount EXCEPT ![l] = @ + 1]
              /\ UNCHANGED <<failedProjects, stopped>>
         ELSE /\ stopped' =
                    [stopped EXCEPT ![l] = daemonCheck /\ isDaemonError(err)]
              /\ UNCHANGED <<successCount, failedProjects>>
    /\ pc' = IF \/ Len(results[l]) + 1 = Len(ListOf(l))
                \/ (err # NilError /\ daemonCheck /\ isDaemonError(err))
               THEN next
               ELSE pc

\* The body of the start and retry loops once the error of the project is
\* known: successCount++ when it is nil, otherwise the append to
\* failedProjects and, where the loop makes the check, the break on
\* isDaemonError.  The loop ends after the last project or at the break.
Recorded(l, attempt, err, daemonCheck, next) ==
    /\ results' = [results EXCEPT ![l] = Append(@, attempt)]
    /\ IF err = NilError
         THEN /\ successCount' = [successCount EXCEPT ![l] = @ + 1]
              /\ UNCHANGED <<failedProjects, stopped>>
         ELSE /\ failedProjects' =
                    [failedProjects EXCEPT ![l] = Append(@, attempt.name)]
              /\ stopped' =
                    [stopped EXCEPT ![l] = daemonCheck /\ isDaemonError(err)]
              /\ UNCHANGED successCount
    /\ pc' = IF \/ Len(results[l]) + 1 = Len(ListOf(l))
                \/ (err # NilError /\ daemonCheck /\ isDaemonError(err))
               THEN next
               ELSE pc

\* What can happen to one project in a loop: the error of ResolveHomeDir,
\* of NewComposeManager, of the operation and of Close; a call that is not
\* reached returns nothing.
Outcomes ==
    { o \in [resolveErr : ResolveErrors, cmErr : ComposeManagerErrors,
             opErr : OperationErrors, closeErr : CloseErrors] :
        /\ o.resolveErr # NilError => o.cmErr = NilError
        /\ (o.resolveErr # NilError \/ o.cmErr # NilError) =>
              (o.opErr = NilError /\ o.closeErr = NilError) }

\* The operation of the compose manager was called.
Called(name, o) ==
    /\ name \in Keys(projectsMap)
    /\ o.resolveErr = NilError
    /\ o.cmErr = NilError

\* The project a loop is at.
Current(l) == ListOf(l)[Len(results[l]) + 1]

\* The processes of this section begin with the projects registered.
InitRun ==
    /\ InitApp
    /\ projectsMap = RegisteredProjects
    /\ map0 = RegisteredProjects
    /\ file = Written(RegisteredProjects)
    /\ fileAtStart = file
    /\ file0 = file

\* The head of the root command: CheckDockerStatus, SelectProjects and the
\* test of an empty selection; r is the version of the command.
RootCommand(r) ==
    /\ \E hcOk \in BOOLEAN, sel \in Selections \cup {<<>>} :
         IF hcOk /\ sel # <<>>
           THEN /\ runner' = r
                /\ loop' = "start"
                /\ selected' = sel
                /\ pc' = "startLoop"
           ELSE /\ pc' = "done"
                /\ UNCHANGED <<runner, loop, selected>>
    /\ UNCHANGED <<flowVars, clVars, cliVars, pjVars, successCount,
                   failedProjects, stopped, results, statuses>>

\* handleRootCommand (part_001)
handleRootCommand ==
    /\ pc = "idle"
    /\ RootCommand("projectRunner")

\* rootCmd.Run (cmd/root.go)
rootCmd_Run ==
    /\ pc = "idle"
    /\ RootCommand("rootCmd")

\* One iteration of the loop of startProjects / retryFailedProjects of
\* part_001: startSingleProject, then the counting.
RunnerIteration(l, next) ==
    /\ \E o \in Outcomes :
         LET name == Current(l)
             err == startSingleProject(name, o.resolveErr, o.cmErr, o.opErr)
         IN  Recorded(l,
                      Attempt(name, Called(name, o), o.opErr, o.closeErr,
                              IF err = NilError THEN "started" ELSE "failed"),
                      err, TRUE, next)
    /\ UNCHANGED <<flowVars, clVars, cliVars, pjVars, runner, loop, selected,
                   statuses>>

\* projectRunner.startProjects
startProjects ==
    /\ pc = "startLoop"
    /\ runner = "projectRunner"
    /\ RunnerIteration("start", "handleResults")

\* retryFailedProjects (part_001)
retryFailedProjects ==
    /\ pc = "retryLoop"
    /\ runner = "projectRunner"
    /\ RunnerIteration("retry", "showFinalStatus")

\* The error tested after `err = cm.StartProject(...)`, `err = cm.Close()`.
rootCmd_err(startErr, closeErr) == closeErr

\* One iteration of the loops of cmd/root.go: the failures before the
\* operation append and continue; then the operation, Close, and the test
\* of err.
RootIteration(l, next) ==
    /\ \E o \in Outcomes :
         LET name == Current(l)
             called == Called(name, o)
             err == IF name \notin Keys(projectsMap)
                      THEN <<"unknown project: ", name>>
                      ELSE IF o.resolveErr # NilError
                             THEN o.resolveErr
                             ELSE IF o.cmErr # NilError
                                    THEN o.cmErr
                                    ELSE rootCmd_err(o.opErr, o.closeErr)
         IN  Recorded(l,
                      Attempt(name, called, o.opErr, o.closeErr,
                              IF err = NilError THEN "started" ELSE "failed"),
                      err, called, next)
    /\ UNCHANGED <<flowVars, clVars, cliVars, pjVars, runner, loop, selected,
                   statuses>>

\* rootCmd.Run: the loop over selectedProjects
rootCmd_StartLoop ==
    /\ pc = "startLoop"
    /\ runner = "rootCmd"
    /\ RootIteration("start", "handleResults")

\* retryFailedProjects (cmd/root.go)
rootCmd_retryFailedProjects ==
    /\ pc = "retryLoop"
    /\ runner = "rootCmd"
    /\ RootIteration("retry", "showFinalStatus")

\* handleResults and offerRetry: the summary, and the retry prompt when a
\* project failed (in cmd/root.go the same steps follow the loop).
handleResults ==
    /\ pc = "handleResults"
    /\ IF failedProjects["start"] # <<>>
         THEN \E answer \in Answers :
                IF answer = "Yes"
                  THEN /\ loop' = "retry"
                       /\ pc' = "retryLoop"
                  ELSE /\ pc' = "showFinalStatus"
                       /\ UNCHANGED loop
         ELSE /\ pc' = "showFinalStatus"
              /\ UNCHANGED loop
    /\ UNCHANGED <<flowVars, clVars, cliVars, pjVars, runner, selected,
                   successCount, failedProjects, stopped, results, statuses>>

\* showFinalStatus
showFinalStatus ==
    /\ pc = "showFinalStatus"
    /\ pc' = IF successCount["start"] > 0
               THEN "showStatusForProjects"
               ELSE "done"
    /\ UNCHANGED <<flowVars, clVars, cliVars, pjVars, runVars>>

\* statusCmd with one project named: CheckDockerStatus, then the status of
\* the project.
statusCmd ==
    /\ pc = "idle"
    /\ \E hcOk \in BOOLEAN, name \in Names :
         IF hcOk
           THEN /\ runner' = "status"
                /\ selected' = <<name>>
                /\ pc' = "showStatusForProjects"
           ELSE /\ pc' = "done"
                /\ UNCHANGED <<runner, selected>>
    /\ UNCHANGED <<flowVars, clVars, cliVars, pjVars, loop, successCount,
                   failedProjects, stopped, results, statuses>>

\* showSingleProjectStatus / showProjectStatus for the next project of
\* showStatusForProjects: GetProjectStatus is called unless the path or the
\* compose manager failed.
showSingleProjectStatus ==
    /\ pc = "showStatusForProjects"
    /\ \E resolveErr \in ResolveErrors, cmErr \in ComposeManagerErrors,
          loadErr \in {NilError, <<"failed to read compose file: ", "EOF">>},
          ensureErr \in EnsureErrors,
          listErr \in {NilError, <<"request canceled">>} :
         LET name == selected[Len(statuses) + 1]
             called == resolveErr = NilError /\ cmErr = NilError
             r == GetProjectStatus(loadErr,
                                   GetProjectContainers(ensureErr, listErr))
         IN  /\ ~called =>
                   loadErr = NilError /\ ensureErr = NilError /\ listErr = NilError
             /\ resolveErr # NilError => cmErr = NilError
             /\ loadErr # NilError => ensureErr = NilError
             /\ (loadErr # NilError \/ ensureErr # NilError) => listErr = NilError
             /\ statuses' = Append(statuses,
                    [name |-> name, called |-> called, loadErr |-> loadErr,
                     ensureErr |-> ensureErr, listErr |-> listErr,
                     statuses |-> IF called THEN r.statuses ELSE "nil",
                     err |-> IF called THEN r.err ELSE NilError])
    /\ pc' = IF Len(statuses) + 1 = Len(selected) THEN "done" ELSE pc
    /\ UNCHANGED <<flowVars, clVars, cliVars, pjVars, runner, loop, selected,
                   successCount, failedProjects, stopped, results>>

\* healthCmd, "Restart all stopped projects": fixAllProjectIssues is given
\* the projects.
healthCmd ==
    /\ pc = "idle"
    /\ \E sel \in Selections :
         /\ runner' = "fixAll"
         /\ loop' = "fix"
         /\ selected' = sel
         /\ pc' = "fixLoop"
    /\ UNCHANGED <<flowVars, clVars, cliVars, pjVars, successCount,
                   failedProjects, stopped, results, statuses>>

\* What fixAllProjectIssues prints for a project once `err = cm.Close()`
\* followed `err = cm.RestartProject(projectDir)`.
fixAll_reported(restartErr, closeErr) ==
    IF closeErr # NilError THEN "failed" ELSE "fixed"

\* fixAllProjectIssues: one iteration of its loop.
fixAllProjectIssues ==
    /\ pc = "fixLoop"
    /\ \E o \in Outcomes :
         LET name == Current("fix")
             reported ==
                 IF name \notin Keys(projectsMap) \/ o.resolveErr # NilError
                   THEN "none"
                   ELSE IF o.cmErr # NilError
                          THEN "failed"
                          ELSE fixAll_reported(o.opErr, o.closeErr)
         IN  results' = [results EXCEPT !["fix"] =
                 Append(@, Attempt(name, Called(name, o), o.opErr, o.closeErr,
                                   reported))]
    /\ pc' = IF Len(results["fix"]) + 1 = Len(selected) THEN "done" ELSE pc
    /\ UNCHANGED <<flowVars, clVars, cliVars, pjVars, runner, loop, selected,
                   successCount, failedProjects, stopped, statuses>>

NextRun ==
    \/ handleRootCommand
    \/ startProjects
    \/ retryFailedProjects
    \/ rootCmd_Run
    \/ rootCmd_StartLoop
    \/ rootCmd_retryFailedProjects
    \/ handleResults
    \/ showFinalStatus
    \/ statusCmd
    \/ showSingleProjectStatus
    \/ healthCmd
    \/ fixAllProjectIssues

SpecRun == InitRun /\ [][NextRun]_vars

Next ==
    \/ CheckDockerStatus
    \/ ComposeOperation
    \/ ExecuteDockerComposeCommand
    \/ PrepareCommand
    \/ executeCommandWithErrorHandling
    \/ executeCommandWithErrorHandling_Capture
    \/ HandleRegistryError
    \/ assistWithLogin
    \/ checkDockerStatusBrief
    \/ checkDockerStatusBrief_NewClient
    \/ checkDockerStatusBrief_Ping
    \/ offerDetailedDockerInfo
    \/ showDetailedDockerStatus
    \/ showDetailedDockerStatus_Queries
    \/ handleMacOSDockerError
    \/ attemptContainerRuntimeStart
    \/ waitAndRetryDocker
    \/ waitAndRetryDocker_NewClient
    \/ waitAndRetryDocker_Ping
    \/ showStartupOptions

Spec == Init /\ [][Next]_vars

----------------------------------------------------------------------------
(* Properties *)

\* The control is inside the loop of waitAndRetryDocker.
InRetryLoop ==
    pc \in {"waitAndRetryDocker", "wrNewDockerHealthChecker",
            "wrCheckDockerDaemon"}

\* waitAndRetryDocker was entered and its loop has been left.
RetryLoopLeft == wrCalls > 0 /\ ~InRetryLoop

\* C1: waitAndRetryDocker begins at most MaxRetries attempts, one after
\* another (an attempt begins only when the one before has ended, and at
\* most one ping per attempt), and the first successful ping ends it with
\* nil at once: no attempt, ping or sleep follows the success, also when the
\* success is that of attempt MaxRetries.
C1_RetryBoundedStopsOnSuccess ==
    /\ wrStarted <= MaxRetries
    /\ wrStarted <= i + 1
    /\ wrPings <= wrStarted
    /\ ("wr" \in open => pc = "wrCheckDockerDaemon")
    /\ wrOkAt # 0 =>
         /\ hcErr = "nil"
         /\ ~InRetryLoop
         /\ wrStarted = wrOkAt
         /\ sleeps = wrOkAt
         /\ wrPings <= wrOkAt

\* C1 witness: the ping of attempt MaxRetries succeeded and nil was returned.
C1_Witness ==
    /\ wrOkAt = MaxRetries
    /\ wrPings = MaxRetries
    /\ hcErr = "nil"
    /\ pc = "hcReturned"

\* C2: when no ping of waitAndRetryDocker succeeds, the loop is left only
\* after exactly MaxRetries attempts (each one call of
\* NewDockerHealthChecker and at most one ping), the failure message is
\* printed and showStartupOptions is entered; the value returned is an
\* error, never nil.
C2_ExhaustedRetryFails ==
    (RetryLoopLeft /\ wrOkAt = 0) =>
        /\ wrStarted = MaxRetries
        /\ i = MaxRetries
        /\ newClientCalls = MaxRetries + 1
        /\ wrPings <= MaxRetries
        /\ "wrFailed" \in shown
        /\ hcErr # "nil"
        /\ hcErr # "none" =>
             /\ startupCalls = 1
             /\ hcExit \in {"manual", "auto", "startupAborted", "startupDefault"}

\* C2 witness: MaxRetries pings were made, all failed, and an error was
\* returned after showStartupOptions.
C2_Witness ==
    /\ RetryLoopLeft
    /\ wrOkAt = 0
    /\ wrPings = MaxRetries
    /\ startupCalls = 1
    /\ hcErr \notin {"none", "nil"}

\* The terminal states of the health check that are no success.
NonSuccessExits ==
    {"notInstalled", "clientFailed", "windows", "linux", "promptAborted",
     "unknownChoice", "launchFailed", "manual", "auto", "startupAborted",
     "startupDefault"}

\* C3: CheckDockerStatus returns nil only if a ping of this invocation
\* succeeded; every terminal state that is no success returns an error.
C3_NilOnlyAfterPing ==
    /\ hcErr = "nil" => (pingOk /\ hcExit \in {"ok", "ready"})
    /\ hcExit \in NonSuccessExits => hcErr \notin {"nil", "none"}
    /\ pc = "hcReturned" => hcErr # "none"

\* C3 witness: the first ping failed, a ping of the retry loop succeeded,
\* and nil was returned.
C3_Witness ==
    /\ firstPing = "failed"
    /\ pingOk
    /\ hcExit = "ready"
    /\ hcErr = "nil"

\* C4: with docker not on the path no client is ever constructed, no ping,
\* recovery prompt or launch is made, and CheckDockerStatus returns the
\* install error after printing the install options.
C4_NotInstalled ==
    ~dockerOnPath =>
        /\ newClientCalls = 0
        /\ pings = 0
        /\ prompts = 0
        /\ launches = 0
        /\ wrCalls = 0
        /\ pc = "hcReturned" =>
             /\ hcErr = "ErrInstallRuntime"
             /\ hcExit = "notInstalled"
             /\ "install" \in shown

\* C4 witness: docker is not on the path and the check has returned.
C4_Witness ==
    /\ ~dockerOnPath
    /\ pc = "hcReturned"
    /\ hcErr = "ErrInstallRuntime"

\* C5: when docker is on the path and the first ping succeeds,
\* CheckDockerStatus returns nil and no recovery step is executed.
C5_FirstPingOkReturnsNil ==
    (dockerOnPath /\ firstPing = "ok") =>
        /\ prompts = 0
        /\ launches = 0
        /\ wrCalls = 0
        /\ startupCalls = 0
        /\ hcErr \in {"none", "nil"}

\* C6: a compose command is executed only after the health check of the
\* same operation returned nil; after a failed health check none is executed.
C6_HealthCheckBeforeCompose ==
    /\ composeRuns > 0 => hcErr = "nil"
    /\ hcErr \notin {"none", "nil"} => composeRuns = 0

\* C7: an operation runs its compose command at most once.
C7_ComposeRunsOnce == composeRuns <= 1

\* C8: an operation whose failed command was classified as a registry
\* authentication failure returns an error, whatever the user answers.
C8_RegistryFailureReturnsError ==
    (regError # NilRegistryError /\ pc = "opReturned") => opErr # "nil"

\* C9: two calls of DetectRegistryError on the same text return the same
\* result.
C9_Deterministic == calls = 2 => out1 = out2

\* C10: every text that matches the gitlab_auth pattern is classified as
\* gitlab_auth, with a non-empty registry host and the personal access token
\* suggestion first.
C10_GitLabClassification ==
    (calls >= 1 /\ MatchString(patterns.gitlab_auth, input)) =>
        /\ out1.ErrorType = "gitlab_auth"
        /\ out1.Registry # ""
        /\ out1.Suggestions[1] =
             Line("Create a GitLab Personal Access Token with 'read_registry' scope")

\* C11: DetectRegistryError returns nil exactly when the text matches none
\* of the five patterns; a result that is not nil has one of the five error
\* types, the pattern of that type matches the text, and its list of
\* suggestions is not empty.
C11_NilIffNoPatternMatches ==
    calls >= 1 =>
      /\ (out1 = NilRegistryError) <=>
            (\A t \in ErrorTypes : ~MatchString(patterns[t], input))
      /\ out1 # NilRegistryError =>
            /\ out1.ErrorType \in
                  {"gitlab_auth", "github_auth", "dockerhub_auth",
                   "generic_auth", "registry_access"}
            /\ MatchString(patterns[out1.ErrorType], input)
            /\ Len(out1.Suggestions) > 0

\* A text of two lines that matches the Docker Hub pattern only.
C11_Witness ==
    /\ calls >= 1
    /\ out1.ErrorType = "dockerhub_auth"
    /\ Len(out1.Suggestions) = 3
    /\ Matching(input) = {"dockerhub_auth"}
    /\ \E k \in 1 .. Len(input) : input[k] = NL

\* The command failed, its output was captured and matched no registry
\* pattern, and the operation has returned.
UnclassifiedFailureReturned ==
    /\ pc = "opReturned"
    /\ cmdErr # "nil"
    /\ composeRuns = 2
    /\ regError = NilRegistryError
    /\ \A t \in ErrorTypes : ~MatchString(patterns[t], errorOutput)

OutsideHealthCheck ==
    pc \in {"idle", "hcReturned", "executeCommandWithErrorHandling",
            "captureErrorOutput", "HandleRegistryError", "assistWithLogin",
            "opReturned"}

\* C13: every client connection that checkDockerStatusBrief,
\* showDetailedDockerStatus or an iteration of waitAndRetryDocker opens is
\* closed when that function or iteration ends, on success and on every
\* failure: no connection is open once CheckDockerStatus has returned, the
\* second client of the detailed status is open only while its queries run,
\* and an iteration of the retry loop begins and creates its client only
\* when the connection of the iteration before is closed.
C13_ConnectionsClosed ==
    /\ open \subseteq {"hc", "detail", "wr"}
    /\ OutsideHealthCheck => open = {}
    /\ "detail" \in open <=> pc = "ServerVersion"
    /\ "wr" \in open <=> pc = "wrCheckDockerDaemon"
    /\ pc \in {"waitAndRetryDocker", "wrNewDockerHealthChecker"} =>
          "wr" \notin open

\* The health check created its client and the retry loop four more, the
\* last of which was pinged in vain; the flow ended in an error and nothing
\* is open.
C13_Witness ==
    /\ pc = "hcReturned"
    /\ newClientCalls >= 5
    /\ wrPings >= 4
    /\ wrOkAt = 0
    /\ hcErr # "nil"
    /\ open = {}

\* The instructions that belong to a runtime: the block of
\* showOrbStackInstructions, of showColimaInstructions, and for Docker
\* Desktop the manual startup commands.
ManualInstructionsOf(runtime) ==
    CASE runtime = "orbstack" -> "orbstack"
      [] runtime = "colima" -> "colima"
      [] OTHER -> "manual"

\* The launch made is that of the first runtime present in the order
\* orbctl, colima, Docker Desktop, and it is the only one; a launch that
\* succeeded is followed by waitAndRetryDocker, one that failed by no
\* retry loop, no sleep and no ping.
OneLaunchInOrder ==
    /\ launches <= 1
    /\ Cardinality(launched) = launches
    /\ \A l \in launched :
         /\ goos = PlatformDarwin
         /\ l[1] = "orbstack" <=> orbctlOnPath
         /\ l[1] = "colima" <=> ~orbctlOnPath /\ colimaOnPath
         /\ l[1] = "docker" <=> ~orbctlOnPath /\ ~colimaOnPath
         /\ l[2] => wrCalls = 1
         /\ ~l[2] => wrCalls = 0 /\ sleeps = 0 /\ pings = 1

\* C14, as stated: on macOS the automatic start launches only the first
\* runtime present in the order OrbStack, Colima, Docker Desktop; a launch
\* that fails ends the flow with the manual instructions of that runtime
\* and an error, with no other launch and no probe; a launch that succeeds
\* enters wait-and-retry.
C14_FailedLaunchShowsManual ==
    /\ OneLaunchInOrder
    /\ \A l \in launched :
         (~l[2] /\ hcExit # "none") =>
            /\ ManualInstructionsOf(l[1]) \in shown
            /\ hcErr # "nil"

\* C14, amended: on macOS the automatic start launches only the first
\* runtime present in the order OrbStack, Colima, Docker Desktop; a launch
\* that fails is followed by no other launch and no probe, and the flow
\* ends with an error: for OrbStack and Colima at once, after the
\* instructions of that runtime, for Docker Desktop after the prompt of
\* showStartupOptions, which shows the manual startup commands or the
\* auto-start setup if the user picks one of them and nothing otherwise; a
\* launch that succeeds enters wait-and-retry.
C14_FailedLaunchEndsInError ==
    /\ OneLaunchInOrder
    /\ \A l \in launched :
         ~l[2] =>
            /\ l[1] = "orbstack" =>
                  /\ hcExit = "launchFailed"
                  /\ hcErr = "ErrStartOrbStack"
                  /\ "orbstack" \in shown
                  /\ startupCalls = 0
            /\ l[1] = "colima" =>
                  /\ hcExit = "launchFailed"
                  /\ hcErr = "ErrStartColima"
                  /\ "colima" \in shown
                  /\ startupCalls = 0
            /\ l[1] = "docker" =>
                  \/ pc = "showStartupOptions" /\ startupCalls = 0
                  \/ /\ startupCalls = 1
                     /\ hcExit \in {"startupAborted", "manual", "auto",
                                     "startupDefault"}
                     /\ hcErr \notin {"nil", "none"}
                     /\ "manual" \in shown <=> hcExit = "manual"
                     /\ "auto" \in shown <=> hcExit = "auto"

\* Colima is present, OrbStack is not; `colima start` failed.
C14_Witness ==
    /\ launched = {<<"colima", FALSE>>}
    /\ colimaOnPath /\ ~orbctlOnPath
    /\ hcExit = "launchFailed"
    /\ pc = "hcReturned"

\* C15: on every platform other than macOS the health check pings at most
\* once and shows no recovery prompt, launches nothing, never sleeps and
\* never enters the retry loop or the startup options; when the ping fails
\* it prints the troubleshooting tips (those of windows on windows, those of
\* linux elsewhere) and returns an error, with exactly one ping made.
C15_NoRecoveryOffMacOS ==
    goos # PlatformDarwin =>
      /\ prompts = 0 /\ launches = 0 /\ sleeps = 0
      /\ wrCalls = 0 /\ wrPings = 0 /\ startupCalls = 0
      /\ pings <= 1
      /\ firstPing = "failed" =>
            /\ pings = 1
            /\ newClientCalls = 1
            /\ ~pingOk
            /\ hcExit = IF goos = PlatformWindows THEN "windows" ELSE "linux"
            /\ hcErr = IF goos = PlatformWindows
                         THEN "ErrDockerDesktopManual"
                         ELSE "ErrDockerDaemonManual"
            /\ shown = IF goos = PlatformWindows
                         THEN {"tips_windows"}
                         ELSE {"tips_linux"}

\* A system that is none of darwin, windows, linux: the ping failed and the
\* compose operation got the error.
C15_Witness ==
    /\ goos = "freebsd"
    /\ firstPing = "failed"
    /\ pings = 1
    /\ hcErr = "ErrDockerDaemonManual"
    /\ pc = "opReturned"
    /\ opErr = "ErrDockerDaemonManual"

\* A bound on the steps CheckDockerStatus can still take: three for every
\* iteration of the retry loop that can still begin, one for each call on
\* the way to it.
StepsLeft ==
    CASE pc = "checkDockerStatusBrief" -> 3 * MaxRetries + 7
      [] pc = "NewDockerHealthChecker" -> 3 * MaxRetries + 6
      [] pc = "CheckDockerDaemon" -> 3 * MaxRetries + 5
      [] pc = "handleMacOSDockerError" -> 3 * MaxRetries + 4
      [] pc = "attemptContainerRuntimeStart" -> 3 * MaxRetries + 3
      [] pc = "waitAndRetryDocker" -> 3 * (MaxRetries - i) + 2
      [] pc = "wrNewDockerHealthChecker" -> 3 * (MaxRetries - i) + 1
      [] pc = "wrCheckDockerDaemon" -> 3 * (MaxRetries - i)
      [] pc = "offerDetailedDockerInfo" -> 3
      [] pc = "showDetailedDockerStatus" -> 2
      [] pc = "ServerVersion" -> 1
      [] pc = "showStartupOptions" -> 1
      [] OTHER -> 0

\* C16: every invocation of CheckDockerStatus terminates when each call it
\* makes returns: every step of the flow, from the availability check to
\* the return, lowers a bound on the steps that are left, which is never
\* negative; so the flow visits no state twice, and the only loop, that of
\* waitAndRetryDocker, ends after at most MaxRetries iterations.
C16_EveryStepLowersStepsLeft ==
    [][~OutsideHealthCheck => (StepsLeft' < StepsLeft /\ StepsLeft' >= 0)]_vars

\* The longest flow: prompt, launch, twelve iterations in vain, startup
\* options.
C16_Witness ==
    /\ pc = "hcReturned"
    /\ entry = "check"
    /\ prompts = 1 /\ launches = 1
    /\ wrStarted = MaxRetries /\ wrPings = MaxRetries
    /\ startupCalls = 1
    /\ hcExit = "manual"

\* C17, as stated: the sleeps of waitAndRetryDocker lie between the
\* attempts only: a run that made k attempts has slept k-1 times when it
\* returns.
C17_OneSleepLessThanAttempts ==
    (RetryLoopLeft /\ wrStarted >= 1) => sleeps = wrStarted - 1

\* C17, amended: every attempt of waitAndRetryDocker, the first one too,
\* begins with one sleep of RetryInterval and no other sleep is made: at
\* every moment the sleeps made are as many as the attempts begun, each of
\* RetryInterval seconds, no ping comes without the sleep of its attempt
\* before it, and a run that made k attempts has slept k times when it
\* returns.
C17_OneSleepBeforeEachAttempt ==
    /\ sleeps = wrStarted
    /\ slept = RetryInterval * sleeps
    /\ wrPings <= sleeps
    /\ pc = "wrNewDockerHealthChecker" => sleeps = i + 1
    /\ pc = "wrCheckDockerDaemon" => sleeps = i + 1
    /\ (RetryLoopLeft /\ wrOkAt > 0) => sleeps = wrOkAt
    /\ (RetryLoopLeft /\ wrOkAt = 0) => sleeps = MaxRetries

\* The first probe of the retry loop succeeded, and one sleep was made.
C17_Witness ==
    /\ RetryLoopLeft
    /\ wrOkAt = 1
    /\ wrPings = 1
    /\ sleeps = 1
    /\ slept = RetryInterval

\* C18: getPlatformConfiguration returns the profile stored under the key
\* given when there is one and the linux profile for every other value, so
\* that a block of a stored profile is printed whatever runtime.GOOS is:
\* the install options are those of runtime.GOOS on darwin, windows and
\* linux and those of linux elsewhere; and after a failed ping the dispatch
\* goes to the linux handler, with the linux tips and its error, for every
\* system that is neither darwin nor windows.
C18_LinuxIsTheFallback ==
    /\ "none" \notin shown
    /\ hcExit = "notInstalled" =>
          shown = { "install",
                    CASE goos = "darwin" -> "install_darwin"
                      [] goos = "windows" -> "install_windows"
                      [] OTHER -> "install_linux" }
    /\ firstPing = "failed" =>
          CASE goos = "darwin" -> "tips_darwin" \in shown
            [] goos = "windows" ->
                 /\ shown = {"tips_windows"}
                 /\ hcExit = "windows"
            [] OTHER ->
                 /\ shown = {"tips_linux"}
                 /\ hcExit = "linux"
                 /\ hcErr = "ErrDockerDaemonManual"

\* A system outside the three profiles without docker: the install options
\* of linux are printed.
C18_Witness ==
    /\ goos = "freebsd"
    /\ hcExit = "notInstalled"
    /\ "install_linux" \in shown

\* The text without its fragments "registry.example.org", which hold a
\* registry host and no literal of a pattern.
RECURSIVE WithoutPlainRegistry(_)
WithoutPlainRegistry(text) ==
    IF text = <<>>
      THEN <<>>
      ELSE IF Head(text) = "registry.example.org"
             THEN WithoutPlainRegistry(Tail(text))
             ELSE <<Head(text)>> \o WithoutPlainRegistry(Tail(text))

\* C19: the registry host and the image reference are extracted apart from
\* the error type: a text without a `registry.<host>` fragment gives an
\* empty Registry, a text without an `unable to get image '<ref>'` fragment
\* an empty Image, and in both cases the text is classified as its patterns
\* say; the error type is one whose pattern matches whether or not a host
\* or an image was found, and the types a text can be given are those of
\* the same text without its `registry.<host>` fragments.
C19_ExtractionApartFromType ==
    calls >= 1 =>
      /\ (\A k \in 1 .. Len(input) : RegistryCapture(input[k]) = "") =>
            out1.Registry = ""
      /\ (\A k \in 1 .. Len(input) : ImageCapture(input[k]) = "") =>
            out1.Image = ""
      /\ (out1.ErrorType = "nil") <=>
            (\A t \in ErrorTypes : ~MatchString(patterns[t], input))
      /\ out1.ErrorType # "nil" =>
            /\ MatchString(patterns[out1.ErrorType], input)
            /\ MatchString(patterns[out1.ErrorType],
                           WithoutPlainRegistry(input))
            /\ \A k \in 1 .. Len(input) :
                  /\ RegistryCapture(input[k]) # "" => out1.Registry # ""
                  /\ ImageCapture(input[k]) # "" => out1.Image # ""

\* A text with neither fragment that is classified all the same.
C19_Witness ==
    /\ calls >= 1
    /\ input = <<"unauthorized", "authentication required">>
    /\ out1.ErrorType = "generic_auth"
    /\ out1.Registry = ""
    /\ out1.Image = ""

\* C20: the start and stop commands take more than one project name and
\* apply the operation to each: a command given one name or more is not
\* turned down for its arguments, and unless the home directory or the
\* ComposeManager failed, every project named has been given to
\* StartProject or StopProject when the command ends.
C20_EveryNamedProjectOperated ==
    (cliCmd \in {"start", "stop"} /\ Len(cliArgs) >= 1) =>
      /\ cliOut # "ErrArgs"
      /\ cliOut \notin {"ErrResolveHomeDir", "ErrCreateComposeManager"} =>
            \A k \in 1 .. Len(cliArgs) :
               cliArgs[k] \in Projects => cliArgs[k] \in operated

\* C21: the pre-run step asks whether to create the projects file exactly
\* when the file does not exist.  After No the process has exited with
\* status 1, AddProject was not called and there is still no file.  After
\* Yes AddProject is called, and the file is written by the pre-run step
\* after it and only if it returned no error; when the step is through, the
\* file holds the map.  When the file exists nothing is asked, the file is
\* loaded once into the map, and a file that cannot be loaded makes the
\* step return an error, which ends the process with status 1.
C21_PromptOnlyWithoutFile ==
    pc # "idle" =>
      /\ preAnswer # "none" <=> ~fileAtStart.exists
      /\ loadCalls = (IF fileAtStart.exists THEN 1 ELSE 0)
      /\ preAnswer = "No" =>
            /\ pc = "exited" /\ exitCode = "1"
            /\ addCalls = 0 /\ writes = 0
            /\ file = AbsentFile
      /\ preAnswer = "Yes" =>
            /\ pc = "AddProject" \/ addCalls >= 1
            /\ preErr = "nil" =>
                  /\ opDone # "none"
                  /\ writes >= 1
                  /\ file.exists
            /\ pc = "loaded" =>
                  /\ opResult = "nil"
                  /\ file = Written(projectsMap)
            /\ (pc = "exited" /\ opResult \notin {"nil", "ErrSave"}) =>
                  /\ file = AbsentFile
                  /\ preErr = opResult
      /\ preErr \notin {"none", "nil"} => pc = "exited" /\ exitCode = "1"
      /\ fileAtStart.exists =>
            /\ preErr = (IF fileAtStart.valid THEN "nil" ELSE "ErrLoad")
            /\ pc = "loaded" => projectsMap = fileAtStart.data

\* There was no file; the user said Yes and added project1, and the pre-run
\* step wrote the file and went on.
C21_Witness ==
    /\ fileAtStart = AbsentFile
    /\ preAnswer = "Yes"
    /\ pc = "loaded"
    /\ confirm = "Yes"
    /\ picked = <<"project1", "/srv/a">>
    /\ file = Written({<<"project1", "/srv/a">>})
    /\ writes = 2

\* The result of the given type for the plainest text of that type, the
\* literals of its pattern one after the other.
ReferenceResult(errorType) ==
    CHOOSE r \in DetectRegistryError(patterns[errorType]) :
        r.ErrorType = errorType

\* C22: the suggestions of a result depend on its error type alone: every
\* text given a type gets the ordered list that the plainest text of that
\* type gets, and for gitlab_auth the login suggestion, the second of the
\* list, names a registry host that is not empty.
C22_SuggestionsByTypeAlone ==
    (calls >= 1 /\ out1.ErrorType # "nil") =>
      /\ out1.Suggestions = ReferenceResult(out1.ErrorType).Suggestions
      /\ out1.ErrorType = "gitlab_auth" => out1.Suggestions[2][2] # ""

\* C23: whenever GetProjectContainers fails because the ping of its
\* pre-check failed, GetProjectStatus returns an empty status list and no
\* error; it returns an error only for other failures.
C23_EmptyStatusWhenNotAccessible ==
    \A k \in 1 .. Len(statuses) :
        LET s == statuses[k]
        IN  s.called /\ s.loadErr = NilError =>
              /\ s.ensureErr \in PingErrors =>
                    (s.statuses = "empty" /\ s.err = NilError)
              /\ s.err # NilError => s.ensureErr \notin PingErrors

\* C24: in the start loop and in the retry loop, once the operation of a
\* project has failed with a daemon-connectivity error (an error that
\* isDaemonError recognises), no further project of the list is attempted:
\* the failed attempt is the last one of its loop.
C24_DaemonErrorEndsLoop ==
    \A l \in {"start", "retry"} :
        \A k \in 1 .. Len(results[l]) :
            (results[l][k].called /\ isDaemonError(results[l][k].opErr)) =>
                k = Len(results[l])

\* C25: a project is reported as started (start and retry loops) or as
\* fixed (health command) only if its operation returned no error, and it
\* is reported as failed whenever the operation returned an error, whatever
\* Close returned.
C25_ReportFollowsOperation ==
    \A l \in Loops :
        \A k \in 1 .. Len(results[l]) :
            LET a == results[l][k]
            IN  /\ a.reported \in {"started", "fixed"} =>
                      (a.called /\ a.opErr = NilError)
                /\ (a.called /\ a.opErr # NilError) => a.reported = "failed"

\* The start loop of the root command is over.
StartLoopOver ==
    /\ runner \in {"projectRunner", "rootCmd"}
    /\ pc \in {"handleResults", "retryLoop", "showFinalStatus",
               "showStatusForProjects", "done"}

\* C28: after the start loop every attempted project is counted exactly
\* once, in successCount or in failedProjects, so that successCount +
\* len(failedProjects) is the number of projects attempted; that number is
\* the number of selected projects unless the loop stopped early on a daemon
\* error, and then the skipped projects are in neither count.
C28_AttemptedCountedOnce ==
    StartLoopOver =>
      LET res == results["start"]
          failed == failedProjects["start"]
          attempted == Len(res)
          Started == {k \in 1 .. attempted : res[k].reported = "started"}
      IN  /\ successCount["start"] + Len(failed) = attempted
          /\ attempted <= Len(selected)
          /\ \A k \in 1 .. attempted : res[k].name = selected[k]
          /\ successCount["start"] = Cardinality(Started)
          /\ \A k \in 1 .. attempted :
                Cardinality({j \in 1 .. Len(failed) : failed[j] = res[k].name})
                  = IF k \in Started THEN 0 ELSE 1
          /\ ~stopped["start"] => attempted = Len(selected)
          /\ \A k \in (attempted + 1) .. Len(selected) :
                /\ stopped["start"]
                /\ \A j \in 1 .. Len(failed) : failed[j] # selected[k]

\* The loop stopped at the break after the first of two projects; the
\* second one was skipped.
C28_Witness ==
    /\ StartLoopOver
    /\ pc = "handleResults"
    /\ stopped["start"]
    /\ Len(selected) = 2
    /\ Len(results["start"]) = 1
    /\ failedProjects["start"] = <<selected[1]>>
    /\ successCount["start"] = 0

\* The wait-and-retry loop or the display of the instructions was entered.
PastRecoveryChoice ==
    \/ wrCalls > 0
    \/ startupCalls > 0
    \/ shown \cap {"manual", "auto", "orbstack", "colima", "wrFailed"} # {}
    \/ pc \in {"waitAndRetryDocker", "wrNewDockerHealthChecker",
               "wrCheckDockerDaemon", "showStartupOptions"}

\* C26: within one invocation of CheckDockerStatus the recovery flow is
\* acyclic: at most one recovery prompt, one launch and one wait-and-retry
\* loop (and one display of the startup options), and once wait-and-retry or
\* the display of instructions was entered the flow is never at the
\* recovery choice or at the launch again; the launch is never before the
\* choice.
C26_RecoveryAcyclic ==
    /\ prompts <= 1
    /\ launches <= 1
    /\ wrCalls <= 1
    /\ startupCalls <= 1
    /\ pc = "handleMacOSDockerError" =>
          (prompts = 0 /\ launches = 0 /\ ~PastRecoveryChoice)
    /\ pc = "attemptContainerRuntimeStart" =>
          (prompts = 1 /\ launches = 0 /\ ~PastRecoveryChoice)

\* The longest path: the choice, a launch that succeeded, a retry loop that
\* ran out, the startup options and the manual instructions.
C26_Witness ==
    /\ pc = "hcReturned"
    /\ prompts = 1
    /\ launches = 1
    /\ wrCalls = 1
    /\ wrStarted = MaxRetries
    /\ startupCalls = 1
    /\ hcExit = "manual"

\* AddProject or RemoveProject has just returned to its caller.
JustReturned ==
    /\ opDone # "none"
    /\ \/ pc = "SaveProjectsToFile"
       \/ pc = "manageReturned" /\ caller = "manageCmd"

\* C27: AddProject and RemoveProject change the Projects map and write
\* projects.json only when the final confirmation is answered Yes; in every
\* other outcome (a prompt fails, the overwrite is declined, no Docker files
\* and the user declines, the final No, RemoveProject on an empty map) the
\* map and the file are as they were and nothing was written.  After a Yes
\* exactly the entry confirmed was added or removed, one write was made, and
\* the file saved equals the map; only when that write fails does the file
\* stay as it was, and then the error of the save is returned.
C27_ChangedOnlyWhenConfirmed ==
    JustReturned =>
      LET name == picked[1]
      IN  /\ confirm # "Yes" =>
                (projectsMap = map0 /\ file = file0 /\ writes = writes0)
          /\ confirm = "Yes" =>
                /\ writes = writes0 + 1
                /\ opDone = "AddProject" =>
                      /\ picked \in projectsMap
                      /\ Delete(projectsMap, name) = Delete(map0, name)
                /\ opDone = "RemoveProject" =>
                      /\ name \in Keys(map0)
                      /\ projectsMap = Delete(map0, name)
                /\ opResult = "nil" => file = Written(projectsMap)
                /\ opResult # "nil" => (opResult = "ErrSave" /\ file = file0)
          /\ (opDone = "RemoveProject" /\ map0 = {}) =>
                (confirm = "none" /\ opResult = "nil")

\* A confirmed AddProject replaced the path of a registered project and
\* saved the map.
C27_Witness ==
    /\ JustReturned
    /\ opDone = "AddProject"
    /\ confirm = "Yes"
    /\ picked[1] \in Keys(map0)
    /\ projectsMap # map0
    /\ opResult = "nil"
    /\ file = Written(projectsMap)
    /\ file # file0

\* C29: for a command outside the supported list ExecuteDockerComposeCommand
\* runs `docker compose -f <compose file> <command and its arguments>`: the
\* argument after -f is the compose file path of the project, never the
\* command name.
C29_ComposeFileFollowsF ==
    (entry = "legacy" /\ command \notin Operations \cup {"none"}
       /\ composeRuns > 0) =>
        /\ Len(dockerArgs) >= 4
        /\ dockerArgs[1] = "compose"
        /\ dockerArgs[2] = "-f"
        /\ dockerArgs[3] = composeFilePath
        /\ dockerArgs[4] = command

====
